---------------------------- MODULE Spec2Model ----------------------------
(***************************************************************************)
(* Collision core of the engine: BodyComponent (construction, collider     *)
(* ownership, collide, MTV buffer, transform snapshot, entity events) and  *)
(* BoxSolver (the four solver phases over a contact batch); and the chunk  *)
(* system tile map (constructor, chunk matrix, garbage collection, render  *)
(* list, sprite sheets, rendering cache).                                  *)
(*                                                                         *)
(* Vectors are pairs <<x, y>> of integers.  Every vector the solver        *)
(* halves has even components, so scale(0.5) is exact, as it is in the     *)
(* engine's floating-point arithmetic for such values.                     *)
(***************************************************************************)
EXTENDS Integers, Sequences, FiniteSets

VARIABLES
  _ID,            \* BodyComponent._ID, the static id counter
  colliders,      \* body id -> BodyComponent.colliders (a sequence of colliders)
  owningId,       \* collider -> Collider.owningId (Null when never set)
  body,           \* collider -> Collider.body (Null when never set)
  shape,          \* collider -> kind of its shape ("None": not constructed)
  wired,          \* collider -> the bodies whose event dispatcher is wired
                  \* to the collider's, one entry per wire() call
  collisionType,  \* body id -> BodyComponent.collisionType
  pos,            \* body id -> position (transform.pos)
  vel,            \* body id -> velocity (motion.vel)
  _totalMtv,      \* body id -> BodyComponent._totalMtv
  mtvLog,         \* body id -> vectors passed to addMtv since the last applyMtv
  overlap,        \* narrow-phase geometry: collider pair -> MTV of the first
                  \* collider against the second (Zero: the two do not overlap)
  contacts,       \* the contact batch of the tick
  pc,             \* the solver phase that runs next
  pass,           \* number of completed solver passes of the tick
  events,         \* every event emitted so far, in emission order
  acc,            \* body id -> acceleration (motion.acc)
  rotation,       \* body id -> rotation (transform.rotation)
  scale,          \* body id -> BodyComponent.scale, a vector object
                  \* [ref |-> its identity, v |-> its components]
  oldPos,         \* body id -> BodyComponent.oldPos
  oldVel,         \* body id -> BodyComponent.oldVel
  oldAcc,         \* body id -> BodyComponent.oldAcc
  oldRotation,    \* body id -> BodyComponent.oldRotation
  oldScale,       \* body id -> BodyComponent.oldScale, a vector object
  captured,       \* body id -> captureOldTransform has run on the body
  handlers,       \* body id -> handler sets registered on body.events by onAdd
  emitted,        \* the event a collider's dispatcher emitted last
  entityEvents,   \* body id -> what that emit published on the body's entity
  tmArgs,         \* the options given to the ChunkSystemTileMap constructor
  tmStatus,       \* "none": not constructed; "ok"; "TypeError" / "Error": thrown
  chunkSize,      \* ChunkSystemTileMap.chunkSize
  cols,           \* ChunkSystemTileMap.cols
  rows,           \* ChunkSystemTileMap.rows
  chunkCols,      \* ChunkSystemTileMap.chunkCols
  chunkRows,      \* ChunkSystemTileMap.chunkRows
  gcPredicate,    \* chunkGarbageCollectorPredicate is configured
  cachePredicate, \* _chunkRenderingCachePredicate is configured
  _chunks,        \* the chunk matrix: a sequence of rows of chunks
  _chunksXOffset, \* chunk column of the matrix's first column
  _chunksYOffset, \* chunk row of the matrix's first row
  _chunksToRender,\* the render list
  _spriteSheets,  \* key -> the sprite sheet registered under it
  lastUpdate,     \* the inputs of the latest update: the on-screen chunk
                  \* range and the answers of the two predicates
  generated,      \* the chunkGenerator calls of the latest update
  updated,        \* the chunk.update calls of the latest update
  cacheAsked,     \* the rendering-cache predicate calls of the latest update
  unloaded,       \* the chunks the latest update's garbage collection dropped
  drawn           \* what the latest draw painted, chunk by chunk

bodyVars   == <<_ID, colliders, owningId, body, shape, wired>>
motionVars == <<collisionType, pos, vel>>
mtvVars    == <<_totalMtv, mtvLog>>
solverVars == <<overlap, contacts, pc, pass, events>>
transformVars == <<acc, rotation, scale, oldPos, oldVel, oldAcc, oldRotation,
                   oldScale, captured>>
entityVars == <<handlers, emitted, entityEvents>>
tileVars   == <<tmArgs, tmStatus, chunkSize, cols, rows, chunkCols, chunkRows,
                gcPredicate, cachePredicate, _chunks, _chunksXOffset,
                _chunksYOffset, _chunksToRender, _spriteSheets, lastUpdate,
                generated, updated, cacheAsked, unloaded, drawn>>
vars       == <<_ID, colliders, owningId, body, shape, wired, collisionType,
                pos, vel, _totalMtv, mtvLog, overlap, contacts, pc, pass,
                events, acc, rotation, scale, oldPos, oldVel, oldAcc,
                oldRotation, oldScale, captured, handlers, emitted,
                entityEvents, tmArgs, tmStatus, chunkSize, cols, rows,
                chunkCols, chunkRows, gcPredicate, cachePredicate, _chunks,
                _chunksXOffset, _chunksYOffset, _chunksToRender,
                _spriteSheets, lastUpdate, generated, updated, cacheAsked,
                unloaded, drawn>>

-----------------------------------------------------------------------------
(* Bounds *)

MaxBodies    == 2   \* bodies that are ever constructed (ids 0 .. MaxBodies-1)
MaxColliders == 3   \* collider objects that exist
MaxListLen   == 3   \* cap on the length of one body's collider list

BodyIds     == 0 .. (MaxBodies - 1)
ColliderIds == 1 .. MaxColliders
\* the value of a reference or id that was never set (null / undefined)
Null == -1

-----------------------------------------------------------------------------
(* Vector algebra *)

Zero == <<0, 0>>

One == <<1, 1>>

VAdd(a, b) == <<a[1] + b[1], a[2] + b[2]>>

Negate(v) == <<-v[1], -v[2]>>

Scale(v, k) == <<v[1] * k, v[2] * k>>

\* scale(0.5); exact on the even components it is applied to
Half(v) == <<v[1] \div 2, v[2] \div 2>>

Dot(a, b) == a[1] * b[1] + a[2] * b[2]

-----------------------------------------------------------------------------
(* The scene the solver runs on: body 0 owns colliders 1 and 2, body 1 owns *)
(* collider 3; the collider pairs the narrow phase can report are the pairs *)
(* of colliders of different bodies.                                        *)

SceneBodies == {0, 1}

SceneColliders == [b \in BodyIds |-> IF b = 0 THEN <<1, 2>>
                                     ELSE IF b = 1 THEN <<3>> ELSE <<>>]

SceneOwner == [c \in ColliderIds |-> IF c \in {1, 2} THEN 0
                                     ELSE IF c = 3 THEN 1 ELSE Null]

ScenePairs == {<<1, 3>>, <<2, 3>>}

-----------------------------------------------------------------------------
(* BodyComponent: construction and collider ownership *)

CollisionTypes == {"Active", "Passive", "Fixed", "PreventCollision"}

\* JavaScript truthiness of collider.owningId: null/undefined and 0 are falsy
Truthy(x) == x # Null /\ x # 0

Created(b) == b \in BodyIds /\ b < _ID

\* state of the parts of the model an action does not touch
MotionIdle ==
  /\ collisionType = [b \in BodyIds |-> "PreventCollision"]
  /\ pos = [b \in BodyIds |-> Zero]
  /\ vel = [b \in BodyIds |-> Zero]

MtvIdle ==
  /\ _totalMtv = [b \in BodyIds |-> Zero]
  /\ mtvLog = [b \in BodyIds |-> <<>>]

SolverIdle ==
  /\ overlap = [p \in ScenePairs |-> Zero]
  /\ contacts = <<>>
  /\ pc = "idle"
  /\ pass = 0
  /\ events = <<>>

\* the field initialisers of the transform snapshot: scale and oldScale are
\* two vector objects, each obtained from its own Vector.One
TransformIdle ==
  /\ acc = [b \in BodyIds |-> Zero]
  /\ rotation = [b \in BodyIds |-> 0]
  /\ scale = [b \in BodyIds |-> [ref |-> 2 * b, v |-> One]]
  /\ oldPos = [b \in BodyIds |-> Zero]
  /\ oldVel = [b \in BodyIds |-> Zero]
  /\ oldAcc = [b \in BodyIds |-> Zero]
  /\ oldRotation = [b \in BodyIds |-> 0]
  /\ oldScale = [b \in BodyIds |-> [ref |-> 2 * b + 1, v |-> One]]
  /\ captured = [b \in BodyIds |-> FALSE]

\* no body is attached to an entity and nothing was emitted
EntityIdle ==
  /\ handlers = [b \in BodyIds |-> 0]
  /\ emitted = <<>>
  /\ entityEvents = [b \in BodyIds |-> <<>>]

\* the latest update before any update has run
NoUpdate ==
  [ran |-> FALSE, fresh |-> FALSE, xStart |-> 0, yStart |-> 0, xEnd |-> 0, yEnd |-> 0,
   gcTrue |-> {}, intersects |-> FALSE]

\* no tile map has been constructed
TileIdle ==
  /\ tmArgs = <<>>
  /\ tmStatus = "none"
  /\ chunkSize = 0
  /\ cols = 0
  /\ rows = 0
  /\ chunkCols = 0
  /\ chunkRows = 0
  /\ gcPredicate = FALSE
  /\ cachePredicate = FALSE
  /\ _chunks = <<>>
  /\ _chunksXOffset = 0
  /\ _chunksYOffset = 0
  /\ _chunksToRender = <<>>
  /\ _spriteSheets = <<>>
  /\ lastUpdate = NoUpdate
  /\ generated = <<>>
  /\ updated = <<>>
  /\ cacheAsked = <<>>
  /\ unloaded = {}
  /\ drawn = <<>>

InitBody ==
  /\ _ID = 0
  /\ colliders = [b \in BodyIds |-> <<>>]
  /\ owningId = [c \in ColliderIds |-> Null]
  /\ body = [c \in ColliderIds |-> Null]
  /\ shape = [c \in ColliderIds |-> "Box"]
  /\ wired = [c \in ColliderIds |-> <<>>]
  /\ MotionIdle
  /\ MtvIdle
  /\ TransformIdle
  /\ EntityIdle
  /\ TileIdle
  /\ SolverIdle

\* new BodyComponent(): the field initialisers, id = BodyComponent._ID++
NewBody ==
  /\ _ID < MaxBodies
  /\ _ID' = _ID + 1
  /\ colliders' = [colliders EXCEPT ![_ID] = <<>>]
  /\ UNCHANGED <<owningId, body, shape, wired, motionVars, mtvVars,
                 solverVars, transformVars, entityVars, tileVars>>

\* the ownership state add() reads and writes
Ownership ==
  [colliders |-> colliders, owningId |-> owningId, body |-> body,
   wired |-> wired]

\* the effect of BodyComponent.add(collider) of body b on ownership state st
AddTo(st, b, c) ==
  IF ~Truthy(st.owningId[c])
    THEN [colliders |-> [st.colliders EXCEPT ![b] = Append(@, c)],
          owningId  |-> [st.owningId EXCEPT ![c] = b],
          body      |-> [st.body EXCEPT ![c] = b],
          wired     |-> [st.wired EXCEPT ![c] = Append(@, b)]]
    ELSE st

\* BodyComponent.add(collider) on body b
Add(b, c) ==
  /\ Created(b)
  /\ shape[c] # "None"
  /\ Len(colliders[b]) < MaxListLen
  /\ LET st == AddTo(Ownership, b, c)
     IN  /\ colliders' = st.colliders
         /\ owningId' = st.owningId
         /\ body' = st.body
         /\ wired' = st.wired
  /\ UNCHANGED <<_ID, shape, motionVars, mtvVars, solverVars, transformVars,
                 entityVars, tileVars>>

AddAny == \E b \in BodyIds, c \in ColliderIds : Add(b, c)

NextBody ==
  \/ NewBody
  \/ AddAny

SpecBody == InitBody /\ [][NextBody]_vars

-----------------------------------------------------------------------------
(* Side *)

Left  == <<-1, 0>>
Right == <<1, 0>>
Up    == <<0, -1>>
Down  == <<0, 1>>

\* Side.fromDirection: the side whose direction has the largest dot product
\* with the given direction (Left, Right, Top, Bottom tried in this order,
\* the first maximum wins)
FromDirection(d) ==
  LET l == Dot(Left, d)
      r == Dot(Right, d)
      u == Dot(Up, d)
      w == Dot(Down, d)
  IN  IF l >= r /\ l >= u /\ l >= w THEN "Left"
      ELSE IF r >= u /\ r >= w THEN "Right"
      ELSE IF u >= w THEN "Top"
      ELSE "Bottom"

\* Side.getOpposite
GetOpposite(side) ==
  CASE side = "Top" -> "Bottom"
    [] side = "Bottom" -> "Top"
    [] side = "Left" -> "Right"
    [] side = "Right" -> "Left"
    [] OTHER -> "None"

-----------------------------------------------------------------------------
(* Narrow phase: Collider.collide and BodyComponent.collide *)

\* MTVs of box contacts: axis-aligned, with even components
MtvSet == {<<10, 0>>, <<-10, 0>>, <<0, 10>>, <<0, -10>>, <<0, 4>>}

Sgn(x) == IF x > 0 THEN 1 ELSE IF x < 0 THEN -1 ELSE 0

\* the unit vector of an axis-aligned vector
Normalize(v) == <<Sgn(v[1]), Sgn(v[2])>>

\* the MTV of collider a against collider b; the pair taken the other way
\* round has the opposite MTV
Mtv(a, b) ==
  IF <<a, b>> \in DOMAIN overlap THEN overlap[<<a, b>>]
  ELSE IF <<b, a>> \in DOMAIN overlap THEN Negate(overlap[<<b, a>>])
  ELSE Zero

\* the contact of an overlapping pair
Contact(a, b) ==
  [colliderA |-> a, colliderB |-> b, mtv |-> Mtv(a, b),
   normal |-> Normalize(Mtv(a, b))]

\* colliderA.collide(colliderB): <<>> stands for no contact
ColliderCollide(a, b) ==
  IF Mtv(a, b) = Zero THEN <<>> ELSE <<Contact(a, b)>>

RECURSIVE CollideInner(_, _)
\* the inner loop: collider a against each collider of bs, in order
CollideInner(a, bs) ==
  IF bs = <<>> THEN <<>>
  ELSE ColliderCollide(a, Head(bs)) \o CollideInner(a, Tail(bs))

RECURSIVE CollideOuter(_, _)
\* the outer loop over the colliders as of this body
CollideOuter(as, bs) ==
  IF as = <<>> THEN <<>>
  ELSE CollideInner(Head(as), bs) \o CollideOuter(Tail(as), bs)

\* collide with the two bodies taken the wrong way round
BodyCollide_OtherFirst(self, other) ==
  CollideOuter(colliders[other], colliders[self])

\* this.collide(other)
BodyCollide(self, other) == CollideOuter(colliders[self], colliders[other])

-----------------------------------------------------------------------------
(* BoxSolver *)

\* collider.owner as the solver reads it: the body the collider is attached to
Owner(c) == body[c]

CollisionEvent(name, channel, other, side, intersection) ==
  [name |-> name, channel |-> channel, target |-> channel, other |-> other,
   side |-> side, intersection |-> intersection]

\* preSolve with colliderB's event not mirrored (same side, same vector)
PreSolveContact_Unmirrored(contact) ==
  LET side == FromDirection(contact.mtv)
      mtv  == Negate(contact.mtv)
  IN  << CollisionEvent("precollision", contact.colliderA, contact.colliderB,
                        side, mtv),
         CollisionEvent("precollision", contact.colliderB, contact.colliderA,
                        side, mtv) >>

\* one iteration of preSolve: the two events, in emission order
PreSolveContact(contact) ==
  LET side == FromDirection(contact.mtv)
      mtv  == Negate(contact.mtv)
  IN  << CollisionEvent("precollision", contact.colliderA, contact.colliderB,
                        side, mtv),
         CollisionEvent("precollision", contact.colliderB, contact.colliderA,
                        GetOpposite(side), Negate(mtv)) >>

\* one iteration of postSolve: the two events, in emission order
PostSolveContact(contact) ==
  LET mtv == Negate(contact.mtv)
  IN  << CollisionEvent("postcollision", contact.colliderA, contact.colliderB,
                        FromDirection(mtv), mtv),
         CollisionEvent("postcollision", contact.colliderB, contact.colliderA,
                        FromDirection(Negate(mtv)), Negate(mtv)) >>

RECURSIVE PreSolveEvents(_)
PreSolveEvents(cs) ==
  IF cs = <<>> THEN <<>>
  ELSE PreSolveContact(Head(cs)) \o PreSolveEvents(Tail(cs))

RECURSIVE PostSolveEvents(_)
PostSolveEvents(cs) ==
  IF cs = <<>> THEN <<>>
  ELSE PostSolveContact(Head(cs)) \o PostSolveEvents(Tail(cs))

BothActive(contact) ==
  /\ collisionType[Owner(contact.colliderA)] = "Active"
  /\ collisionType[Owner(contact.colliderB)] = "Active"

\* solvePosition that pushes colliderB's body back as well
SolvePositionContact_MovesBoth(p, contact) ==
  LET mtv == IF BothActive(contact) THEN Half(contact.mtv) ELSE contact.mtv
      p1  == [p EXCEPT ![Owner(contact.colliderA)] = VAdd(@, mtv)]
  IN  [p1 EXCEPT ![Owner(contact.colliderB)] = VAdd(@, Negate(mtv))]

\* one iteration of solvePosition on the positions p
SolvePositionContact(p, contact) ==
  LET mtv == IF BothActive(contact) THEN Half(contact.mtv) ELSE contact.mtv
  IN  [p EXCEPT ![Owner(contact.colliderA)] = VAdd(@, mtv)]

RECURSIVE SolvePositionAll(_, _)
SolvePositionAll(p, cs) ==
  IF cs = <<>> THEN p
  ELSE SolvePositionAll(SolvePositionContact(p, Head(cs)), Tail(cs))

\* a velocity adjustment that bounces (restitution 1) instead of cancelling
CancelInto_Bounce(v, n) ==
  IF Dot(n, v) < 0 THEN VAdd(v, Scale(n, 2 * Dot(n, Negate(v)))) ELSE v

\* the velocity adjustment of one body against the direction n
CancelInto(v, n) ==
  IF Dot(n, v) < 0 THEN VAdd(v, Scale(n, Dot(n, Negate(v)))) ELSE v

\* one iteration of solveVelocity on the velocities v
SolveVelocityContact(v, contact) ==
  LET normal   == contact.normal
      opposite == Negate(normal)
      a  == Owner(contact.colliderA)
      b  == Owner(contact.colliderB)
      v1 == [v EXCEPT ![a] = CancelInto(@, normal)]
  IN  [v1 EXCEPT ![b] = CancelInto(@, opposite)]

RECURSIVE SolveVelocityAll(_, _)
SolveVelocityAll(v, cs) ==
  IF cs = <<>> THEN v
  ELSE SolveVelocityAll(SolveVelocityContact(v, Head(cs)), Tail(cs))

MaxPasses == 2   \* bound on Physics.collisionPasses

VelSet == {<<-3, 2>>, <<2, -3>>, <<0, 0>>}

\* the two blocks of the sample scene stand at (200, 200) and (400, 200)
StartPos == [b \in BodyIds |-> <<200 + 200 * b, 200>>]

InitSolver ==
  /\ _ID = 2
  /\ colliders = SceneColliders
  /\ owningId = SceneOwner
  /\ body = SceneOwner
  /\ shape = [c \in ColliderIds |-> IF SceneOwner[c] = Null THEN "None"
                                    ELSE "Box"]
  /\ wired = [c \in ColliderIds |-> IF SceneOwner[c] = Null THEN <<>>
                                    ELSE <<SceneOwner[c]>>]
  /\ collisionType \in [BodyIds -> CollisionTypes]
  /\ \A b \in BodyIds \ SceneBodies : collisionType[b] = "PreventCollision"
  /\ pos = StartPos
  /\ vel \in [BodyIds -> VelSet]
  /\ \A b \in BodyIds \ SceneBodies : vel[b] = Zero
  /\ MtvIdle
  /\ TransformIdle
  /\ EntityIdle
  /\ TileIdle
  /\ overlap \in [ScenePairs -> MtvSet \cup {Zero}]
  /\ contacts = <<>>
  /\ pc = "collide"
  /\ pass = 0
  /\ events = <<>>

\* the narrow phase of the tick: self.collide(other) for the candidate pair
NarrowPhase(self, other) ==
  /\ pc = "collide"
  /\ contacts' = BodyCollide(self, other)
  /\ pc' = "preSolve"
  /\ UNCHANGED <<bodyVars, motionVars, mtvVars, overlap, pass, events,
                 transformVars, entityVars, tileVars>>

NarrowPhaseAny ==
  \E self \in SceneBodies, other \in SceneBodies :
    self # other /\ NarrowPhase(self, other)

PreSolve ==
  /\ pc = "preSolve"
  /\ events' = events \o PreSolveEvents(contacts)
  /\ pc' = "solvePosition"
  /\ UNCHANGED <<bodyVars, motionVars, mtvVars, overlap, contacts, pass,
                 transformVars, entityVars, tileVars>>

\* solvePosition that also steps every body by its velocity
SolvePosition_Integrates ==
  /\ pc = "solvePosition"
  /\ pos' = SolvePositionAll([b \in BodyIds |-> VAdd(pos[b], vel[b])],
                             contacts)
  /\ pc' = "solveVelocity"
  /\ UNCHANGED <<bodyVars, collisionType, vel, mtvVars, overlap, contacts,
                 pass, events, transformVars, entityVars, tileVars>>

\* solvePosition that corrects a batch in the first pass only
SolvePosition_FirstPassOnly ==
  /\ pc = "solvePosition"
  /\ pos' = IF pass = 0 THEN SolvePositionAll(pos, contacts) ELSE pos
  /\ pc' = "solveVelocity"
  /\ UNCHANGED <<bodyVars, collisionType, vel, mtvVars, overlap, contacts,
                 pass, events, transformVars, entityVars, tileVars>>

SolvePosition ==
  /\ pc = "solvePosition"
  /\ pos' = SolvePositionAll(pos, contacts)
  /\ pc' = "solveVelocity"
  /\ UNCHANGED <<bodyVars, collisionType, vel, mtvVars, overlap, contacts,
                 pass, events, transformVars, entityVars, tileVars>>

SolveVelocity ==
  /\ pc = "solveVelocity"
  /\ vel' = SolveVelocityAll(vel, contacts)
  /\ pc' = "postSolve"
  /\ UNCHANGED <<bodyVars, collisionType, pos, mtvVars, overlap, contacts,
                 pass, events, transformVars, entityVars, tileVars>>

\* postSolve that negates each contact's MTV in place
PostSolve_NegatesInPlace ==
  /\ pc = "postSolve"
  /\ events' = events \o PostSolveEvents(contacts)
  /\ contacts' = [i \in DOMAIN contacts |->
                    [contacts[i] EXCEPT !.mtv = Negate(@)]]
  /\ pc' = "passEnd"
  /\ pass' = pass + 1
  /\ UNCHANGED <<bodyVars, motionVars, mtvVars, overlap, transformVars,
                 entityVars, tileVars>>

PostSolve ==
  /\ pc = "postSolve"
  /\ events' = events \o PostSolveEvents(contacts)
  /\ pc' = "passEnd"
  /\ pass' = pass + 1
  /\ UNCHANGED <<bodyVars, motionVars, mtvVars, overlap, contacts,
                 transformVars, entityVars, tileVars>>

\* the tick's loop over the collision passes: the same batch again
NextPass ==
  /\ pc = "passEnd"
  /\ pass < MaxPasses
  /\ pc' = "preSolve"
  /\ UNCHANGED <<bodyVars, motionVars, mtvVars, overlap, contacts, pass,
                 events, transformVars, entityVars, tileVars>>

NextSolver ==
  \/ NarrowPhaseAny
  \/ PreSolve
  \/ SolvePosition
  \/ SolveVelocity
  \/ PostSolve
  \/ NextPass

SpecSolver == InitSolver /\ [][NextSolver]_vars

-----------------------------------------------------------------------------
(* BodyComponent: the accumulated MTV *)

MaxAdds  == 2   \* addMtv calls on one body between two applyMtv calls
MaxDrift == 2   \* how far, per axis, applyMtv may carry a body from StartPos

MtvInputs == {<<1, 0>>, <<-1, 1>>}

Abs(x) == IF x < 0 THEN -x ELSE x

InitMtv ==
  /\ _ID = 2
  /\ colliders = [b \in BodyIds |-> <<>>]
  /\ owningId = [c \in ColliderIds |-> Null]
  /\ body = [c \in ColliderIds |-> Null]
  /\ shape = [c \in ColliderIds |-> "None"]
  /\ wired = [c \in ColliderIds |-> <<>>]
  /\ collisionType = [b \in BodyIds |-> "PreventCollision"]
  /\ pos = StartPos
  /\ vel = [b \in BodyIds |-> Zero]
  /\ MtvIdle
  /\ TransformIdle
  /\ EntityIdle
  /\ TileIdle
  /\ SolverIdle

\* addMtv(mtv) on body b: this._totalMtv.addEqual(mtv)
AddMtv(b, mtv) ==
  /\ Created(b)
  /\ Len(mtvLog[b]) < MaxAdds
  /\ _totalMtv' = [_totalMtv EXCEPT ![b] = VAdd(@, mtv)]
  /\ mtvLog' = [mtvLog EXCEPT ![b] = Append(@, mtv)]
  /\ UNCHANGED <<bodyVars, motionVars, solverVars, transformVars, entityVars,
                 tileVars>>

\* applyMtv that forgets to reset the buffer
ApplyMtv_KeepsBuffer(b) ==
  /\ Created(b)
  /\ LET p == VAdd(pos[b], _totalMtv[b])
     IN  /\ Abs(p[1] - StartPos[b][1]) <= MaxDrift
         /\ Abs(p[2] - StartPos[b][2]) <= MaxDrift
         /\ pos' = [pos EXCEPT ![b] = p]
  /\ mtvLog' = [mtvLog EXCEPT ![b] = <<>>]
  /\ UNCHANGED <<bodyVars, collisionType, vel, solverVars, _totalMtv,
                 transformVars, entityVars, tileVars>>

\* applyMtv() on body b: this.pos.addEqual(this._totalMtv), then
\* this._totalMtv.setTo(0, 0)
ApplyMtv(b) ==
  /\ Created(b)
  /\ LET p == VAdd(pos[b], _totalMtv[b])
     IN  /\ Abs(p[1] - StartPos[b][1]) <= MaxDrift
         /\ Abs(p[2] - StartPos[b][2]) <= MaxDrift
         /\ pos' = [pos EXCEPT ![b] = p]
  /\ _totalMtv' = [_totalMtv EXCEPT ![b] = Zero]
  /\ mtvLog' = [mtvLog EXCEPT ![b] = <<>>]
  /\ UNCHANGED <<bodyVars, collisionType, vel, solverVars, transformVars,
                 entityVars, tileVars>>

AddMtvAny == \E b \in BodyIds, mtv \in MtvInputs : AddMtv(b, mtv)

ApplyMtvAny == \E b \in BodyIds : ApplyMtv(b)

NextMtv ==
  \/ AddMtvAny
  \/ ApplyMtvAny

SpecMtv == InitMtv /\ [][NextMtv]_vars

-----------------------------------------------------------------------------
(* BodyComponent: the transform snapshot (captureOldTransform, hasChanged) *)

PosSet   == {<<200, 200>>, <<210, 200>>}
RotSet   == {0, 1}
ScaleSet == {<<1, 1>>, <<2, 2>>}

\* identities of the vector objects held in scale and oldScale
VectorRefs == 0 .. (2 * MaxBodies)

\* the identity of a newly constructed vector: one no field refers to
NewRef ==
  LET live == {scale[b].ref : b \in BodyIds} \cup
              {oldScale[b].ref : b \in BodyIds}
      free == VectorRefs \ live
  IN  CHOOSE r \in free : \A q \in free : r <= q

\* one body in the scene, not yet snapshotted
InitTransform ==
  /\ _ID = 1
  /\ colliders = [b \in BodyIds |-> <<>>]
  /\ owningId = [c \in ColliderIds |-> Null]
  /\ body = [c \in ColliderIds |-> Null]
  /\ shape = [c \in ColliderIds |-> "None"]
  /\ wired = [c \in ColliderIds |-> <<>>]
  /\ collisionType = [b \in BodyIds |-> "PreventCollision"]
  /\ pos = StartPos
  /\ vel \in [BodyIds -> VelSet]
  /\ \A b \in BodyIds : ~Created(b) => vel[b] = Zero
  /\ MtvIdle
  /\ TransformIdle
  /\ EntityIdle
  /\ TileIdle
  /\ SolverIdle

\* captureOldTransform() on body b: setTo copies components into the old
\* vectors, which stay the objects they were
CaptureOldTransform(b) ==
  /\ Created(b)
  /\ oldVel' = [oldVel EXCEPT ![b] = vel[b]]
  /\ oldPos' = [oldPos EXCEPT ![b] = pos[b]]
  /\ oldAcc' = [oldAcc EXCEPT ![b] = acc[b]]
  /\ oldScale' = [oldScale EXCEPT ![b].v = scale[b].v]
  /\ oldRotation' = [oldRotation EXCEPT ![b] = rotation[b]]
  /\ captured' = [captured EXCEPT ![b] = TRUE]
  /\ UNCHANGED <<bodyVars, motionVars, mtvVars, solverVars, acc, rotation,
                 scale, entityVars, tileVars>>

\* hasChanged() on body b: position by components, rotation by value, scale
\* by the identity of the two vector objects (!==)
HasChanged(b) ==
  \/ oldPos[b] # pos[b]
  \/ oldRotation[b] # rotation[b]
  \/ oldScale[b].ref # scale[b].ref

\* body.pos = p
SetPos(b, p) ==
  /\ Created(b)
  /\ pos' = [pos EXCEPT ![b] = p]
  /\ UNCHANGED <<bodyVars, collisionType, vel, mtvVars, solverVars,
                 transformVars, entityVars, tileVars>>

\* body.rotation = r
SetRotation(b, r) ==
  /\ Created(b)
  /\ rotation' = [rotation EXCEPT ![b] = r]
  /\ UNCHANGED <<bodyVars, motionVars, mtvVars, solverVars, acc, scale,
                 oldPos, oldVel, oldAcc, oldRotation, oldScale, captured,
                 entityVars, tileVars>>

\* body.scale = new Vector(v.x, v.y)
SetScale(b, v) ==
  /\ Created(b)
  /\ scale' = [scale EXCEPT ![b] = [ref |-> NewRef, v |-> v]]
  /\ UNCHANGED <<bodyVars, motionVars, mtvVars, solverVars, acc, rotation,
                 oldPos, oldVel, oldAcc, oldRotation, oldScale, captured,
                 entityVars, tileVars>>

\* body.scale.setTo(v.x, v.y): the same vector object with new components
ScaleSetTo(b, v) ==
  /\ Created(b)
  /\ scale' = [scale EXCEPT ![b].v = v]
  /\ UNCHANGED <<bodyVars, motionVars, mtvVars, solverVars, acc, rotation,
                 oldPos, oldVel, oldAcc, oldRotation, oldScale, captured,
                 entityVars, tileVars>>

CaptureAny == \E b \in BodyIds : CaptureOldTransform(b)

SetPosAny == \E b \in BodyIds, p \in PosSet : SetPos(b, p)

SetRotationAny == \E b \in BodyIds, r \in RotSet : SetRotation(b, r)

SetScaleAny == \E b \in BodyIds, v \in ScaleSet : SetScale(b, v)

ScaleSetToAny == \E b \in BodyIds, v \in ScaleSet : ScaleSetTo(b, v)

NextTransform ==
  \/ CaptureAny
  \/ SetPosAny
  \/ SetRotationAny
  \/ SetScaleAny
  \/ ScaleSetToAny

SpecTransform == InitTransform /\ [][NextTransform]_vars

-----------------------------------------------------------------------------
(* BodyComponent: construction with options and the use*Collider helpers *)

ShapeKinds == {"Box", "Polygon", "Circle", "Edge"}

\* the collider objects not constructed yet, and the one `new Collider` makes
Unmade == {c \in ColliderIds : shape[c] = "None"}

FreshCollider == CHOOSE c \in Unmade : \A d \in Unmade : c <= d

\* this.colliders.forEach(c => this.add(c)) over the elements cs
RECURSIVE AddEach(_, _, _)
AddEach(st, b, cs) ==
  IF cs = <<>> THEN st
  ELSE AddEach(AddTo(st, b, Head(cs)), b, Tail(cs))

\* this.colliders = []; collider = new Collider({ shape }); this.add(collider)
UseColliderOn(st, b) ==
  AddTo([st EXCEPT !.colliders[b] = <<>>], b, FreshCollider)

InitColliders ==
  /\ _ID = 0
  /\ colliders = [b \in BodyIds |-> <<>>]
  /\ owningId = [c \in ColliderIds |-> Null]
  /\ body = [c \in ColliderIds |-> Null]
  /\ shape = [c \in ColliderIds |-> "None"]
  /\ wired = [c \in ColliderIds |-> <<>>]
  /\ MotionIdle
  /\ MtvIdle
  /\ TransformIdle
  /\ EntityIdle
  /\ TileIdle
  /\ SolverIdle

\* new Collider({ shape }) outside any body
NewCollider(kind) ==
  /\ Unmade # {}
  /\ shape' = [shape EXCEPT ![FreshCollider] = kind]
  /\ UNCHANGED <<_ID, colliders, owningId, body, wired, motionVars, mtvVars,
                 solverVars, transformVars, entityVars, tileVars>>

\* new BodyComponent(options): the field initialisers (id = _ID++,
\* colliders = []), useBoxCollider when options.box is given, then add() of
\* every element of this.colliders; options.colliders (given) is not read
Construct(box, given) ==
  /\ _ID < MaxBodies
  /\ box => Unmade # {}
  /\ LET id  == _ID
         st0 == [Ownership EXCEPT !.colliders[id] = <<>>]
         st1 == IF box THEN UseColliderOn(st0, id) ELSE st0
         st2 == IF Len(st1.colliders[id]) > 0
                  THEN AddEach(st1, id, st1.colliders[id])
                  ELSE st1
     IN  /\ colliders' = st2.colliders
         /\ owningId' = st2.owningId
         /\ body' = st2.body
         /\ wired' = st2.wired
         /\ shape' = IF box THEN [shape EXCEPT ![FreshCollider] = "Box"]
                     ELSE shape
  /\ _ID' = _ID + 1
  /\ UNCHANGED <<motionVars, mtvVars, solverVars, transformVars, entityVars,
                 tileVars>>

\* the collider lists a caller can pass as options.colliders: one or two
\* constructed colliders that no body owns
Givens ==
  LET free == {c \in ColliderIds : shape[c] # "None" /\ owningId[c] = Null}
  IN  {<<c>> : c \in free} \cup
      {p \in free \X free : p[1] # p[2]}

\* new BodyComponent({ box })
NewBodyBox == Construct(TRUE, <<>>)

\* new BodyComponent({ colliders: given })
NewBodyColliders(given) == Construct(FALSE, given)

\* a use*Collider that keeps the colliders the body had
UseCollider_KeepsList(b, kind) ==
  /\ Created(b)
  /\ Unmade # {}
  /\ Len(colliders[b]) < MaxListLen
  /\ LET st == AddTo(Ownership, b, FreshCollider)
     IN  /\ colliders' = st.colliders
         /\ owningId' = st.owningId
         /\ body' = st.body
         /\ wired' = st.wired
  /\ shape' = [shape EXCEPT ![FreshCollider] = kind]
  /\ UNCHANGED <<_ID, motionVars, mtvVars, solverVars, transformVars,
                 entityVars, tileVars>>

\* useBoxCollider / usePolygonCollider / useCircleCollider / useEdgeCollider
\* on body b: the four differ in the shape of the new collider only
UseCollider(b, kind) ==
  /\ Created(b)
  /\ Unmade # {}
  /\ LET st == UseColliderOn(Ownership, b)
     IN  /\ colliders' = st.colliders
         /\ owningId' = st.owningId
         /\ body' = st.body
         /\ wired' = st.wired
  /\ shape' = [shape EXCEPT ![FreshCollider] = kind]
  /\ UNCHANGED <<_ID, motionVars, mtvVars, solverVars, transformVars,
                 entityVars, tileVars>>

UseBoxCollider(b) == UseCollider(b, "Box")

UsePolygonCollider(b) == UseCollider(b, "Polygon")

UseCircleCollider(b) == UseCollider(b, "Circle")

UseEdgeCollider(b) == UseCollider(b, "Edge")

NewColliderAny == \E kind \in ShapeKinds : NewCollider(kind)

NewBodyCollidersAny == \E given \in Givens : NewBodyColliders(given)

UseBoxColliderAny == \E b \in BodyIds : UseBoxCollider(b)

UsePolygonColliderAny == \E b \in BodyIds : UsePolygonCollider(b)

UseCircleColliderAny == \E b \in BodyIds : UseCircleCollider(b)

UseEdgeColliderAny == \E b \in BodyIds : UseEdgeCollider(b)

\* add() of a collider that no body owns yet
AddFreeAny ==
  \E b \in BodyIds, c \in ColliderIds : owningId[c] = Null /\ Add(b, c)

NextColliders ==
  \/ NewBody
  \/ NewBodyBox
  \/ NewBodyCollidersAny
  \/ NewColliderAny
  \/ AddFreeAny
  \/ UseBoxColliderAny
  \/ UsePolygonColliderAny
  \/ UseCircleColliderAny
  \/ UseEdgeColliderAny

SpecColliders == InitColliders /\ [][NextColliders]_vars

-----------------------------------------------------------------------------
(* BodyComponent.collide on its own: two bodies, any geometry *)

\* collider lists of bodies 0 and 1 that add() can produce: empty lists, one
\* and two colliders, and body 0 listing one collider twice
CollideLists ==
  {<<<<1, 2>>, <<3>>>>, <<<<>>, <<3>>>>, <<<<1, 2>>, <<>>>>,
   <<<<1>>, <<2, 3>>>>, <<<<3, 3>>, <<1, 2>>>>}

CollidePairs == {<<1, 2>>, <<1, 3>>, <<2, 3>>}

\* the body that lists collider c in the lists ls, Null when none does
ListedBy(ls, c) ==
  IF \E i \in 1 .. Len(ls[1]) : ls[1][i] = c THEN 0
  ELSE IF \E i \in 1 .. Len(ls[2]) : ls[2][i] = c THEN 1
  ELSE Null

InitCollide ==
  /\ _ID = 2
  /\ \E ls \in CollideLists :
       /\ colliders = [b \in BodyIds |-> IF b \in {0, 1} THEN ls[b + 1]
                                         ELSE <<>>]
       /\ owningId = [c \in ColliderIds |-> ListedBy(ls, c)]
       /\ body = [c \in ColliderIds |-> ListedBy(ls, c)]
       /\ shape = [c \in ColliderIds |->
                     IF ListedBy(ls, c) = Null THEN "None" ELSE "Box"]
       /\ wired = [c \in ColliderIds |->
                     [i \in 1 .. Len(SelectSeq(ls[1] \o ls[2],
                                               LAMBDA d : d = c))
                        |-> ListedBy(ls, c)]]
  /\ MotionIdle
  /\ MtvIdle
  /\ TransformIdle
  /\ EntityIdle
  /\ TileIdle
  /\ overlap \in [CollidePairs -> MtvSet \cup {Zero}]
  /\ contacts = <<>>
  /\ pc = "idle"
  /\ pass = 0
  /\ events = <<>>

\* contacts = self.collide(other)
Collide(self, other) ==
  /\ Created(self)
  /\ Created(other)
  /\ self # other
  /\ contacts' = BodyCollide(self, other)
  /\ UNCHANGED <<bodyVars, motionVars, mtvVars, overlap, pc, pass, events,
                 transformVars, entityVars, tileVars>>

CollideAny == \E self \in BodyIds, other \in BodyIds : Collide(self, other)

NextCollide == CollideAny

SpecCollide == InitCollide /\ [][NextCollide]_vars

-----------------------------------------------------------------------------
(* BodyComponent on an entity: onAdd, onRemove and the wired events *)

EventNames == {"precollision", "postcollision"}

\* what onAdd's handler publishes on the entity for the event evt:
\* (evt.target.owner, evt.other.body.owner, evt.side, evt.intersection)
Republished(evt) ==
  [name |-> evt.name, actor |-> Owner(evt.target), other |-> body[evt.other],
   side |-> evt.side, intersection |-> evt.intersection]

\* how many times body b's dispatcher is wired to collider c's
WiredCount(c, b) == Len(SelectSeq(wired[c], LAMBDA w : w = b))

\* what the entity of body b receives when evt is emitted on collider c:
\* c's dispatcher passes evt to every dispatcher wired to it, once per
\* wire() call, and body b's dispatcher runs every handler registered on it
Publications(b, c, evt) ==
  [i \in 1 .. (WiredCount(c, b) * handlers[b]) |-> Republished(evt)]

\* onAdd(entity) of body b: the handlers are registered on body.events
OnAdd(b) ==
  /\ Created(b)
  /\ handlers[b] = 0
  /\ handlers' = [handlers EXCEPT ![b] = @ + 1]
  /\ UNCHANGED <<bodyVars, motionVars, mtvVars, solverVars, transformVars,
                 emitted, entityEvents, tileVars>>

\* onRemove() of body b: this.events.clear()
OnRemove(b) ==
  /\ Created(b)
  /\ handlers[b] > 0
  /\ handlers' = [handlers EXCEPT ![b] = 0]
  /\ UNCHANGED <<bodyVars, motionVars, mtvVars, solverVars, transformVars,
                 emitted, entityEvents, tileVars>>

\* collider c's dispatcher emits a collision event against collider o, as
\* the solver does for the two colliders of a contact
Emit(c, o, name, side, intersection) ==
  /\ c # o
  /\ body[c] # Null
  /\ body[o] # Null
  /\ LET evt == CollisionEvent(name, c, o, side, intersection)
     IN  /\ emitted' = <<evt>>
         /\ entityEvents' = [b \in BodyIds |-> Publications(b, c, evt)]
  /\ UNCHANGED <<bodyVars, motionVars, mtvVars, solverVars, transformVars,
                 handlers, tileVars>>

OnAddAny == \E b \in BodyIds : OnAdd(b)

OnRemoveAny == \E b \in BodyIds : OnRemove(b)

EmitAny ==
  \E c \in ColliderIds, o \in ColliderIds, name \in EventNames :
    Emit(c, o, name, Left, <<10, 0>>)

NextEntity ==
  \/ NewBody
  \/ NewBodyBox
  \/ NewColliderAny
  \/ AddFreeAny
  \/ UseCircleColliderAny
  \/ OnAddAny
  \/ OnRemoveAny
  \/ EmitAny

SpecEntity == InitColliders /\ [][NextEntity]_vars

-----------------------------------------------------------------------------
(* ChunkSystemTileMap: the constructor *)

\* JavaScript numbers a caller can pass: a small integer n ("int"), n + 0.5
\* ("half"), NaN ("nan"), and an integer above Number.MAX_SAFE_INTEGER ("big")
Whole(n)  == [k |-> "int", n |-> n]
HalfOver(n) == [k |-> "half", n |-> n]
NaN     == [k |-> "nan", n |-> 0]
Big     == [k |-> "big", n |-> 0]

\* v <= 0
LeqZero(v) ==
  CASE v.k = "int"  -> v.n <= 0
    [] v.k = "half" -> v.n < 0
    [] OTHER        -> FALSE

\* Number.isSafeInteger(v)
IsSafeInteger(v) == v.k = "int"

\* a % b is truthy, for the safe positive integers that reach the test
ModTruthy(a, b) == (a.n % b.n) # 0

SheetKeys == {"a", "b"}
Sheets == {1}
NoSheet == 0

\* a chunk that has no sprite sheet registered
NoSheets == [key \in SheetKeys |-> NoSheet]

ArgNumbers ==
  {Whole(-2), Whole(0), Whole(1), Whole(2), Whole(3), Whole(4), Whole(6), HalfOver(2),
   HalfOver(-1), NaN, Big}

TmArgs ==
  [chunkSize : ArgNumbers, rows : ArgNumbers, cols : ArgNumbers,
   gc : BOOLEAN, cache : BOOLEAN]

\* the outcome of the constructor's checks, in their order
TmCheck(config) ==
  IF LeqZero(config.chunkSize) \/ ~IsSafeInteger(config.chunkSize)
    THEN "TypeError"
  ELSE IF LeqZero(config.rows) \/ ~IsSafeInteger(config.rows)
    THEN "TypeError"
  ELSE IF LeqZero(config.cols) \/ ~IsSafeInteger(config.cols)
    THEN "TypeError"
  ELSE IF ModTruthy(config.cols, config.chunkSize) THEN "Error"
  ELSE IF ModTruthy(config.rows, config.chunkSize) THEN "Error"
  ELSE "ok"

\* a constructor that does not test rows against chunkSize
TmConstruct_RowsUnchecked(config) ==
  /\ tmStatus = "none"
  /\ tmArgs' = config
  /\ LET check == IF TmCheck(config) = "Error" /\
                     ~ModTruthy(config.cols, config.chunkSize)
                    THEN "ok" ELSE TmCheck(config)
     IN  /\ tmStatus' = check
         /\ IF check = "ok"
              THEN /\ chunkSize' = config.chunkSize.n
                   /\ cols' = config.cols.n
                   /\ rows' = config.rows.n
                   /\ chunkCols' = config.cols.n \div config.chunkSize.n
                   /\ chunkRows' = config.rows.n \div config.chunkSize.n
                   /\ gcPredicate' = config.gc
                   /\ cachePredicate' = config.cache
              ELSE UNCHANGED <<chunkSize, cols, rows, chunkCols, chunkRows,
                               gcPredicate, cachePredicate>>
  /\ _chunks' = <<>>
  /\ _chunksXOffset' = 0
  /\ _chunksYOffset' = 0
  /\ _chunksToRender' = <<>>
  /\ _spriteSheets' = NoSheets
  /\ UNCHANGED <<bodyVars, motionVars, mtvVars, solverVars, transformVars,
                 entityVars, lastUpdate, generated, updated, cacheAsked,
                 unloaded, drawn>>

\* new ChunkSystemTileMap(config): the checks, then the field assignments
TmConstruct(config) ==
  /\ tmStatus = "none"
  /\ tmArgs' = config
  /\ tmStatus' = TmCheck(config)
  /\ IF TmCheck(config) = "ok"
       THEN /\ chunkSize' = config.chunkSize.n
            /\ cols' = config.cols.n
            /\ rows' = config.rows.n
            /\ chunkCols' = config.cols.n \div config.chunkSize.n
            /\ chunkRows' = config.rows.n \div config.chunkSize.n
            /\ gcPredicate' = config.gc
            /\ cachePredicate' = config.cache
       ELSE UNCHANGED <<chunkSize, cols, rows, chunkCols, chunkRows,
                        gcPredicate, cachePredicate>>
  /\ _chunks' = <<>>
  /\ _chunksXOffset' = 0
  /\ _chunksYOffset' = 0
  /\ _chunksToRender' = <<>>
  /\ _spriteSheets' = NoSheets
  /\ UNCHANGED <<bodyVars, motionVars, mtvVars, solverVars, transformVars,
                 entityVars, lastUpdate, generated, updated, cacheAsked,
                 unloaded, drawn>>

InitTileCtor ==
  /\ _ID = 0
  /\ colliders = [b \in BodyIds |-> <<>>]
  /\ owningId = [c \in ColliderIds |-> Null]
  /\ body = [c \in ColliderIds |-> Null]
  /\ shape = [c \in ColliderIds |-> "None"]
  /\ wired = [c \in ColliderIds |-> <<>>]
  /\ MotionIdle
  /\ MtvIdle
  /\ TransformIdle
  /\ EntityIdle
  /\ SolverIdle
  /\ TileIdle

TmConstructAny == \E config \in TmArgs : TmConstruct(config)

NextTileCtor == TmConstructAny

SpecTileCtor == InitTileCtor /\ [][NextTileCtor]_vars

-----------------------------------------------------------------------------
(* ChunkSystemTileMap: the chunk matrix *)

\* the map under test: 3 x 2 chunks of 8 x 8 cells, cells of 10 x 10 units
MapConfig ==
  [x |-> 0, y |-> 0, cellWidth |-> 10, cellHeight |-> 10,
   chunkSize |-> Whole(8), cols |-> Whole(24), rows |-> Whole(16)]

\* every chunk coordinate of the map's chunk grid
GridCoords == (0 .. 2) \X (0 .. 1)

\* an empty slot of the chunk matrix
Undefined ==
  [loaded |-> FALSE, x |-> 0, y |-> 0, sheets |-> NoSheets,
   renderingCache |-> FALSE]

\* new Array(n), spread
Blank(n) == [i \in 1 .. n |-> Undefined]

Min(a, b) == IF a < b THEN a ELSE b
Max(a, b) == IF a > b THEN a ELSE b

\* the chunks of matrix m, wherever they are stored
LoadedIn(m) ==
  UNION {{m[r][c] : c \in {k \in DOMAIN m[r] : m[r][k].loaded}} :
           r \in DOMAIN m}

\* value evaluated once and handed to Then
Bind(value, Then(_)) == CHOOSE result \in {Then(v) : v \in {value}} : TRUE

\* the first branch of _growChunkMatrixForChunkAt; st carries _chunks (m),
\* the two offsets and the calls made so far
GrowLeft(st, chunkX) ==
  IF chunkX < st.xo
    THEN [st EXCEPT
            !.m = [r \in DOMAIN st.m |-> Blank(st.xo - chunkX) \o st.m[r]],
            !.xo = chunkX]
    ELSE st

\* the second branch
GrowRight(st, chunkX) ==
  IF Len(st.m) > 0 /\ chunkX >= st.xo + Len(st.m[1])
    THEN [st EXCEPT
            !.m = [r \in DOMAIN st.m |->
                     st.m[r] \o Blank(chunkX - (st.xo + Len(st.m[r])) + 1)]]
    ELSE st

\* the two while loops
GrowRows(st, chunkY) ==
  LET expectedChunkRowLength == IF Len(st.m) > 0 THEN Len(st.m[1]) ELSE 1
      above == Max(st.yo - chunkY, 0)
      below == Max(chunkY - ((st.yo - above) + (Len(st.m) + above)) + 1, 0)
  IN  [st EXCEPT
         !.m = [i \in 1 .. above |-> Blank(expectedChunkRowLength)]
               \o st.m
               \o [i \in 1 .. below |-> Blank(expectedChunkRowLength)],
         !.yo = st.yo - above]

GrowChunkMatrixForChunkAt(st, chunkX, chunkY) ==
  Bind(GrowLeft(st, chunkX), LAMBDA left :
    Bind(GrowRight(left, chunkX), LAMBDA right : GrowRows(right, chunkY)))

\* what chunkGenerator(chunkX, chunkY) returns, with the map's sheets
\* registered and renderingCache: null assigned
Generate(chunkX, chunkY, sheets) ==
  [loaded |-> TRUE, x |-> chunkX, y |-> chunkY, sheets |-> sheets,
   renderingCache |-> FALSE]

\* a first half that generates the chunk whether or not its slot is empty
GenerateIfAbsent_Always(st, chunkX, chunkY, sheets) ==
  [st EXCEPT
     !.m[chunkY - st.yo + 1][chunkX - st.xo + 1] =
       Generate(chunkX, chunkY, sheets),
     !.generated = Append(@,
       [x |-> chunkX, y |-> chunkY,
        wasLoaded |-> \E ch \in LoadedIn(st.m) :
                        ch.x = chunkX /\ ch.y = chunkY])]

\* the first half of _updateChunk: generate the chunk if its slot is empty
GenerateIfAbsent(st, chunkX, chunkY, sheets) ==
  IF ~st.m[chunkY - st.yo + 1][chunkX - st.xo + 1].loaded
    THEN [st EXCEPT
            !.m[chunkY - st.yo + 1][chunkX - st.xo + 1] =
              Generate(chunkX, chunkY, sheets),
            !.generated = Append(@,
              [x |-> chunkX, y |-> chunkY,
               wasLoaded |-> \E ch \in LoadedIn(st.m) :
                               ch.x = chunkX /\ ch.y = chunkY])]
    ELSE st

\* a loop body that puts the chunk at the front of the render list
PushToRender_Front(st, chunkX, chunkY) ==
  [st EXCEPT
     !.render = <<st.m[chunkY - st.yo + 1][chunkX - st.xo + 1]>> \o @]

\* the append of update's loop body
PushToRender(st, chunkX, chunkY) ==
  [st EXCEPT
     !.render = Append(@, st.m[chunkY - st.yo + 1][chunkX - st.xo + 1])]

\* the second half with a rendering cache kept over later updates ignored
CacheOrUpdate_DropsCache(st, chunkX, chunkY, hasCachePredicate, cacheYes) ==
  LET answer == <<chunkX, chunkY>> \in cacheYes
  IN  [st EXCEPT
         !.m[chunkY - st.yo + 1][chunkX - st.xo + 1].renderingCache =
           hasCachePredicate /\ answer,
         !.cacheAsked = IF hasCachePredicate
                          THEN Append(@, [x |-> chunkX, y |-> chunkY,
                                          answer |-> answer])
                          ELSE @,
         !.updated = Append(@, <<chunkX, chunkY>>)]

\* the second half of _updateChunk: pre-render or update the chunk unless
\* it has a rendering cache
CacheOrUpdate(st, chunkX, chunkY, hasCachePredicate, cacheYes) ==
  LET chunk == st.m[chunkY - st.yo + 1][chunkX - st.xo + 1]
      answer == <<chunkX, chunkY>> \in cacheYes
  IN  IF chunk.renderingCache THEN st
      ELSE [st EXCEPT
              !.m[chunkY - st.yo + 1][chunkX - st.xo + 1].renderingCache =
                hasCachePredicate /\ answer,
              !.cacheAsked = IF hasCachePredicate
                               THEN Append(@, [x |-> chunkX, y |-> chunkY,
                                               answer |-> answer])
                               ELSE @,
              !.updated = Append(@, <<chunkX, chunkY>>)]

\* _updateChunk, and the push of its result on the render list
UpdateChunk(st, chunkX, chunkY, sheets, hasCachePredicate, cacheYes) ==
  Bind(GrowChunkMatrixForChunkAt(st, chunkX, chunkY), LAMBDA grown :
    Bind(GenerateIfAbsent(grown, chunkX, chunkY, sheets), LAMBDA made :
      Bind(CacheOrUpdate(made, chunkX, chunkY, hasCachePredicate, cacheYes),
           LAMBDA done : PushToRender(done, chunkX, chunkY))))

-----------------------------------------------------------------------------
(* ChunkSystemTileMap: garbage collection *)

\* Number.POSITIVE_INFINITY, above every length the matrix can have
PositiveInfinity == 1000

\* array.splice(start): drop everything from index start (0-based) on
SpliceFrom(array, start) ==
  LET from == IF start < 0 THEN Max(Len(array) + start, 0)
              ELSE Min(start, Len(array))
  IN  SubSeq(array, 1, from)

\* array.splice(0, count): drop the first count elements
SpliceHead(array, count) ==
  SubSeq(array, Min(Max(count, 0), Len(array)) + 1, Len(array))

\* one pass of the inner loop: at is the state of the row scan, rect the
\* on-screen index ranges, gcYes the chunks the predicate answers true for
ScanColumn(at, chunkRowIndex, chunkColumnIndex, rect, gcYes) ==
  IF /\ chunkRowIndex >= rect.rowStart
     /\ chunkRowIndex <= rect.rowEnd
     /\ chunkColumnIndex >= rect.colStart
     /\ chunkColumnIndex <= rect.colEnd
    THEN [at EXCEPT !.rowCleared = FALSE]
    ELSE
      LET chunk == at.row[chunkColumnIndex + 1]
          drop  == chunk.loaded /\ <<chunk.x, chunk.y>> \in gcYes
          swept == [at EXCEPT
                      !.gcTrue = IF drop THEN @ \cup {<<chunk.x, chunk.y>>}
                                 ELSE @,
                      !.row[chunkColumnIndex + 1] =
                        IF drop THEN Undefined ELSE @,
                      !.rowCleared =
                        IF chunk.loaded /\ ~drop THEN FALSE ELSE @]
      IN  IF chunkColumnIndex < rect.colStart
            THEN [swept EXCEPT
                    !.lead = IF swept.rowCleared THEN @ + 1 ELSE @]
            ELSE [swept EXCEPT
                    !.trail = IF swept.row[chunkColumnIndex + 1].loaded
                                THEN 0 ELSE @ + 1]

RECURSIVE ScanColumns(_, _, _, _, _)
ScanColumns(at, chunkRowIndex, chunkColumnIndex, rect, gcYes) ==
  IF chunkColumnIndex >= Len(at.row) THEN at
  ELSE Bind(ScanColumn(at, chunkRowIndex, chunkColumnIndex, rect, gcYes),
            LAMBDA next :
              ScanColumns(next, chunkRowIndex, chunkColumnIndex + 1, rect,
                          gcYes))

\* the end of one pass of the outer loop: gc is the state of the matrix
\* scan, at the state of the row scan after the row's last column
EndRow(gc, at, chunkRowIndex, rect) ==
  [gc EXCEPT
     !.m[chunkRowIndex + 1] = at.row,
     !.gcTrue = at.gcTrue,
     !.leadingColumnsToRemove = Min(@, at.lead),
     !.trailingColumnsToRemove = Min(@, at.trail),
     !.leadingRowsToRemove =
       IF chunkRowIndex < rect.rowStart /\ at.rowCleared /\ @ = chunkRowIndex
         THEN @ + 1 ELSE @,
     !.trailingRowsToRemove =
       IF chunkRowIndex < rect.rowStart THEN @
       ELSE IF at.rowCleared THEN @ + 1 ELSE 0]

\* one pass of the outer loop
ScanRow(gc, chunkRowIndex, rect, gcYes) ==
  Bind(ScanColumns([row |-> gc.m[chunkRowIndex + 1], rowCleared |-> TRUE,
                    lead |-> 0, trail |-> 0, gcTrue |-> gc.gcTrue],
                   chunkRowIndex, 0, rect, gcYes),
       LAMBDA at : EndRow(gc, at, chunkRowIndex, rect))

RECURSIVE ScanRows(_, _, _, _)
ScanRows(gc, chunkRowIndex, rect, gcYes) ==
  IF chunkRowIndex >= Len(gc.m) THEN gc
  ELSE Bind(ScanRow(gc, chunkRowIndex, rect, gcYes), LAMBDA next :
              ScanRows(next, chunkRowIndex + 1, rect, gcYes))

\* trimming that leaves the column offset alone
Trim_KeepsOffset(st, gc) ==
  LET rows1 == SpliceHead(SpliceFrom(gc.m, Len(gc.m) - gc.trailingRowsToRemove),
                          gc.leadingRowsToRemove)
  IN  [st EXCEPT
         !.m = [r \in 1 .. Len(rows1) |->
                  SpliceHead(SpliceFrom(rows1[r],
                               Len(rows1[r]) - gc.trailingColumnsToRemove),
                             gc.leadingColumnsToRemove)],
         !.gcTrue = gc.gcTrue,
         !.yo = @ + gc.leadingRowsToRemove]

\* the trimming after the scan
Trim(st, gc) ==
  LET rows1 == SpliceHead(SpliceFrom(gc.m, Len(gc.m) - gc.trailingRowsToRemove),
                          gc.leadingRowsToRemove)
  IN  [st EXCEPT
         !.m = [r \in 1 .. Len(rows1) |->
                  SpliceHead(SpliceFrom(rows1[r],
                               Len(rows1[r]) - gc.trailingColumnsToRemove),
                             gc.leadingColumnsToRemove)],
         !.gcTrue = gc.gcTrue,
         !.yo = @ + gc.leadingRowsToRemove,
         !.xo = @ + gc.leadingColumnsToRemove]

\* the scan from its first row
Scan(st, rect, gcYes) ==
  ScanRows([m |-> st.m, gcTrue |-> {},
            leadingRowsToRemove |-> 0,
            trailingRowsToRemove |-> 0,
            leadingColumnsToRemove |-> PositiveInfinity,
            trailingColumnsToRemove |-> PositiveInfinity],
           0, rect, gcYes)

\* garbage collection that also sweeps the on-screen chunks
GarbageCollectChunks_SweepsOnScreen(st, xStart, yStart, xEnd, yEnd, gcYes) ==
  Bind(Scan(st, [rowStart |-> yStart - st.yo, rowEnd |-> yStart - st.yo - 1,
                 colStart |-> xStart - st.xo, colEnd |-> xEnd - st.xo],
            gcYes),
       LAMBDA gc : Trim(st, gc))

\* _garbageCollectChunks
GarbageCollectChunks(st, xStart, yStart, xEnd, yEnd, gcYes) ==
  Bind(Scan(st, [rowStart |-> yStart - st.yo, rowEnd |-> yEnd - st.yo,
                 colStart |-> xStart - st.xo, colEnd |-> xEnd - st.xo],
            gcYes),
       LAMBDA gc : Trim(st, gc))

-----------------------------------------------------------------------------
(* ChunkSystemTileMap: update, draw, registerSpriteSheet *)

\* screens, as the world coordinates of the upper left and lower right
\* corner in each direction
Screen(ulx, uly, lrx, lry) ==
  [ulx |-> ulx, uly |-> uly, lrx |-> lrx, lry |-> lry]

Cameras ==
  {Screen(100, 100, 160, 130), Screen(50, 50, 100, 100),
   Screen(-20, 20, 10, 50), Screen(260, 50, 290, 100),
   Screen(180, -20, 240, 10), Screen(20, 180, 210, 210)}

\* the chunks a predicate answers true for during one update
GcAnswers == {{}, GridCoords, {<<0, 0>>, <<2, 1>>}}
CacheAnswers == {{}, {<<1, 0>>, <<1, 1>>}}

\* BoundingBox.intersect, truthy or null: null for boxes apart, truthy for a
\* box of positive width and height inside the other; hit is the answer for
\* a box without width or height inside the other
Intersect(box, other, hit) ==
  IF \/ box.right < other.left  \/ other.right < box.left
     \/ box.bottom < other.top  \/ other.bottom < box.top
    THEN FALSE
  ELSE IF box.left < box.right /\ box.top < box.bottom THEN TRUE
  ELSE hit

\* the two loops of update over the render range, rows outer, columns inner
RECURSIVE UpdateChunks(_, _, _, _, _, _, _)
UpdateChunks(st, chunkX, chunkY, range, sheets, hasCachePredicate, cacheYes) ==
  IF chunkY > range.bottom THEN st
  ELSE IF chunkX > range.right
    THEN UpdateChunks(st, range.left, chunkY + 1, range, sheets,
                      hasCachePredicate, cacheYes)
  ELSE Bind(UpdateChunk(st, chunkX, chunkY, sheets, hasCachePredicate,
                        cacheYes),
            LAMBDA next :
              UpdateChunks(next, chunkX + 1, chunkY, range, sheets,
                           hasCachePredicate, cacheYes))

\* update after the on-screen chunk range is known: garbage collection, the
\* render range, the offsets of an empty matrix, the render list
UpdateOnScreen(onScreen, gcYes, cacheYes, hit) ==
  LET range ==
        [left   |-> Min(Max(onScreen.left, 0), (cols \div chunkSize) - 1),
         top    |-> Min(Max(onScreen.top, 0), (rows \div chunkSize) - 1),
         right  |-> Min(Max(onScreen.right, 0), (cols \div chunkSize) - 1),
         bottom |-> Min(Max(onScreen.bottom, 0), (rows \div chunkSize) - 1)]
      intersects == Intersect(range, onScreen, hit)
      st0 == [m |-> _chunks, xo |-> _chunksXOffset, yo |-> _chunksYOffset,
              generated |-> <<>>, updated |-> <<>>, cacheAsked |-> <<>>,
              render |-> <<>>, gcTrue |-> {}]
  IN  \E collected \in
           {IF gcPredicate
              THEN GarbageCollectChunks(st0, onScreen.left, onScreen.top,
                                        onScreen.right, onScreen.bottom, gcYes)
              ELSE st0} :
        \E based \in
             {IF Len(collected.m) = 0
                THEN [collected EXCEPT !.xo = range.left, !.yo = range.top]
                ELSE collected} :
          \E done \in
               {IF intersects
                  THEN UpdateChunks(based, range.left, range.top, range,
                                    _spriteSheets, cachePredicate, cacheYes)
                  ELSE based} :
            /\ _chunks' = done.m
            /\ _chunksXOffset' = done.xo
            /\ _chunksYOffset' = done.yo
            /\ _chunksToRender' = done.render
            /\ generated' = done.generated
            /\ updated' = done.updated
            /\ cacheAsked' = done.cacheAsked
            /\ unloaded' = LoadedIn(_chunks) \ LoadedIn(collected.m)
            /\ lastUpdate' =
                 [ran |-> TRUE, fresh |-> TRUE,
                  xStart |-> onScreen.left, yStart |-> onScreen.top,
                  xEnd |-> onScreen.right, yEnd |-> onScreen.bottom,
                  gcTrue |-> done.gcTrue, intersects |-> intersects]

\* update(engine, delta) with the screen at camera
Update(camera, gcYes, cacheYes, hit) ==
  /\ tmStatus = "ok"
  /\ LET cellOnScreenXStart == ((camera.ulx - MapConfig.x) \div MapConfig.cellWidth) - 2
         cellOnScreenYStart == ((camera.uly - MapConfig.y) \div MapConfig.cellHeight) - 2
         cellOnScreenXEnd == ((camera.lrx - MapConfig.x) \div MapConfig.cellWidth) + 2
         cellOnScreenYEnd == ((camera.lry - MapConfig.y) \div MapConfig.cellHeight) + 2
     IN  UpdateOnScreen([left   |-> cellOnScreenXStart \div chunkSize,
                         top    |-> cellOnScreenYStart \div chunkSize,
                         right  |-> cellOnScreenXEnd \div chunkSize,
                         bottom |-> cellOnScreenYEnd \div chunkSize],
                        gcYes, cacheYes, hit)
  /\ drawn' = <<>>
  /\ UNCHANGED <<bodyVars, motionVars, mtvVars, solverVars, transformVars,
                 entityVars, tmArgs, tmStatus, chunkSize, cols, rows,
                 chunkCols, chunkRows, gcPredicate, cachePredicate,
                 _spriteSheets>>

\* draw(ctx, delta): the cached image of a chunk that has one, else its draw
Draw ==
  /\ tmStatus = "ok"
  /\ drawn' = [i \in DOMAIN _chunksToRender |->
                 [x |-> _chunksToRender[i].x, y |-> _chunksToRender[i].y,
                  how |-> IF _chunksToRender[i].renderingCache
                            THEN "drawImage" ELSE "draw"]]
  /\ generated' = <<>>
  /\ updated' = <<>>
  /\ cacheAsked' = <<>>
  /\ unloaded' = {}
  /\ lastUpdate' = [lastUpdate EXCEPT !.fresh = FALSE]
  /\ UNCHANGED <<bodyVars, motionVars, mtvVars, solverVars, transformVars,
                 entityVars, tmArgs, tmStatus, chunkSize, cols, rows,
                 chunkCols, chunkRows, gcPredicate, cachePredicate, _chunks,
                 _chunksXOffset, _chunksYOffset, _chunksToRender,
                 _spriteSheets>>

\* chunk.registerSpriteSheet(key, spriteSheet)
WithSheet(chunk, key, spriteSheet) ==
  [chunk EXCEPT !.sheets[key] = spriteSheet]

\* registerSpriteSheet that leaves the chunks already loaded alone
RegisterSpriteSheet_MapOnly(key, spriteSheet) ==
  /\ tmStatus = "ok"
  /\ _spriteSheets' = [_spriteSheets EXCEPT ![key] = spriteSheet]
  /\ drawn' = <<>>
  /\ generated' = <<>>
  /\ updated' = <<>>
  /\ cacheAsked' = <<>>
  /\ unloaded' = {}
  /\ lastUpdate' = [lastUpdate EXCEPT !.fresh = FALSE]
  /\ UNCHANGED <<bodyVars, motionVars, mtvVars, solverVars, transformVars,
                 entityVars, tmArgs, tmStatus, chunkSize, cols, rows,
                 chunkCols, chunkRows, gcPredicate, cachePredicate,
                 _chunks, _chunksToRender,
                 _chunksXOffset, _chunksYOffset>>

\* registerSpriteSheet(key, spriteSheet); the render list holds the very
\* chunk objects of the matrix, so a listed chunk changes with its slot
RegisterSpriteSheet(key, spriteSheet) ==
  /\ tmStatus = "ok"
  /\ _spriteSheets' = [_spriteSheets EXCEPT ![key] = spriteSheet]
  /\ _chunks' = [r \in DOMAIN _chunks |->
                   [c \in DOMAIN _chunks[r] |->
                      IF _chunks[r][c].loaded
                        THEN WithSheet(_chunks[r][c], key, spriteSheet)
                        ELSE _chunks[r][c]]]
  /\ _chunksToRender' = [i \in DOMAIN _chunksToRender |->
                           IF _chunksToRender[i] \in LoadedIn(_chunks)
                             THEN WithSheet(_chunksToRender[i], key, spriteSheet)
                             ELSE _chunksToRender[i]]
  /\ drawn' = <<>>
  /\ generated' = <<>>
  /\ updated' = <<>>
  /\ cacheAsked' = <<>>
  /\ unloaded' = {}
  /\ lastUpdate' = [lastUpdate EXCEPT !.fresh = FALSE]
  /\ UNCHANGED <<bodyVars, motionVars, mtvVars, solverVars, transformVars,
                 entityVars, tmArgs, tmStatus, chunkSize, cols, rows,
                 chunkCols, chunkRows, gcPredicate, cachePredicate,
                 _chunksXOffset, _chunksYOffset>>

\* getChunk(cellX, cellY); Null for null
GetChunk(cellX, cellY) ==
  LET chunkX == cellX \div chunkSize
      chunkY == cellY \div chunkSize
      row == chunkY - _chunksYOffset
      col == chunkX - _chunksXOffset
  IN  IF row < 0 \/ row >= Len(_chunks) THEN Undefined
      ELSE IF col < 0 \/ col >= Len(_chunks[row + 1]) THEN Undefined
      ELSE _chunks[row + 1][col + 1]

\* a map constructed from MapConfig, with or without either predicate
InitTiles ==
  /\ _ID = 0
  /\ colliders = [b \in BodyIds |-> <<>>]
  /\ owningId = [c \in ColliderIds |-> Null]
  /\ body = [c \in ColliderIds |-> Null]
  /\ shape = [c \in ColliderIds |-> "None"]
  /\ wired = [c \in ColliderIds |-> <<>>]
  /\ MotionIdle
  /\ MtvIdle
  /\ TransformIdle
  /\ EntityIdle
  /\ SolverIdle
  /\ gcPredicate \in BOOLEAN
  /\ cachePredicate \in BOOLEAN
  /\ tmArgs = [chunkSize |-> MapConfig.chunkSize, rows |-> MapConfig.rows,
               cols |-> MapConfig.cols, gc |-> gcPredicate,
               cache |-> cachePredicate]
  /\ tmStatus = TmCheck(tmArgs)
  /\ chunkSize = MapConfig.chunkSize.n
  /\ cols = MapConfig.cols.n
  /\ rows = MapConfig.rows.n
  /\ chunkCols = MapConfig.cols.n \div MapConfig.chunkSize.n
  /\ chunkRows = MapConfig.rows.n \div MapConfig.chunkSize.n
  /\ _chunks = <<>>
  /\ _chunksXOffset = 0
  /\ _chunksYOffset = 0
  /\ _chunksToRender = <<>>
  /\ _spriteSheets = NoSheets
  /\ lastUpdate = NoUpdate
  /\ generated = <<>>
  /\ updated = <<>>
  /\ cacheAsked = <<>>
  /\ unloaded = {}
  /\ drawn = <<>>

UpdateAny ==
  \E camera \in Cameras,
     gcYes \in IF gcPredicate THEN GcAnswers ELSE {{}},
     cacheYes \in IF cachePredicate THEN CacheAnswers ELSE {{}},
     hit \in BOOLEAN :
    Update(camera, gcYes, cacheYes, hit)

RegisterSpriteSheetAny ==
  \E key \in SheetKeys, spriteSheet \in Sheets :
    RegisterSpriteSheet(key, spriteSheet)

NextTiles == UpdateAny \/ Draw \/ RegisterSpriteSheetAny

SpecTiles == InitTiles /\ [][NextTiles]_vars

-----------------------------------------------------------------------------
(* C1 *)

\* number of places (body, index) at which collider c is listed
Listings(c) ==
  {<<b, i>> \in BodyIds \X (1 .. MaxListLen) :
      i <= Len(colliders[b]) /\ colliders[b][i] = c}

\* C1: after any sequence of add calls a collider is listed by at most one
\* body and at most once (an add on an owned collider changes nothing).
C1_SingleOwner ==
  \A c \in ColliderIds : Cardinality(Listings(c)) <= 1

-----------------------------------------------------------------------------
(* C2 .. C9: the solver phases *)

VSub(a, b) == <<a[1] - b[1], a[2] - b[2]>>

AllContacts == 1 .. Len(contacts)

RanPreSolve      == pc = "preSolve" /\ pc' = "solvePosition"
RanSolvePosition == pc = "solvePosition" /\ pc' = "solveVelocity"
RanSolveVelocity == pc = "solveVelocity" /\ pc' = "postSolve"
RanPostSolve     == pc = "postSolve" /\ pc' = "passEnd"

RECURSIVE SplitShare(_, _)
\* what body b moves by when every contact of cs is split between its two
\* bodies: half the MTV as colliderA's body, half the MTV back as colliderB's
SplitShare(b, cs) ==
  IF cs = <<>> THEN Zero
  ELSE LET c  == Head(cs)
           da == IF Owner(c.colliderA) = b THEN Half(c.mtv) ELSE Zero
           db == IF Owner(c.colliderB) = b THEN Negate(Half(c.mtv)) ELSE Zero
       IN  VAdd(VAdd(da, db), SplitShare(b, Tail(cs)))

\* C2: when both bodies of every contact are Active, solvePosition moves each
\* of the two bodies by half of the MTV, away from the other, and a single
\* contact is thereby separated by the whole MTV.
C2_SplitBetweenBoth ==
  [][(RanSolvePosition /\ \A i \in AllContacts : BothActive(contacts[i]))
       => /\ \A b \in BodyIds : pos'[b] = VAdd(pos[b], SplitShare(b, contacts))
          /\ Len(contacts) = 1 =>
               LET a == Owner(contacts[1].colliderA)
                   b == Owner(contacts[1].colliderB)
               IN  VSub(VSub(pos'[a], pos[a]), VSub(pos'[b], pos[b]))
                     = contacts[1].mtv]_vars

\* C3: after a pass, every postcollision event equals the precollision event
\* that preSolve delivered to the same collider for the same contact (same
\* target, other collider, side and intersection).
C3_PostMirrorsPre ==
  pc = "passEnd" =>
    LET n    == 2 * Len(contacts)
        base == Len(events) - 2 * n
    IN  \A k \in 1 .. n :
          events[base + n + k] =
            [events[base + k] EXCEPT !.name = "postcollision"]

ActivePassive(contact) ==
  {collisionType[Owner(contact.colliderA)],
   collisionType[Owner(contact.colliderB)]} = {"Active", "Passive"}

Delivered(name, channel) ==
  \E k \in 1 .. Len(events) :
    events[k].name = name /\ events[k].channel = channel

\* C4: after the phases have run over a batch, a contact between an Active
\* and a Passive body has had precollision delivered to both colliders and
\* postcollision to neither.
C4_NoPostForPassive ==
  pc = "passEnd" =>
    \A i \in AllContacts :
      ActivePassive(contacts[i]) =>
        /\ Delivered("precollision", contacts[i].colliderA)
        /\ Delivered("precollision", contacts[i].colliderB)
        /\ ~Delivered("postcollision", contacts[i].colliderA)
        /\ ~Delivered("postcollision", contacts[i].colliderB)

\* C5: preSolve appends exactly two precollision events per contact, in batch
\* order, colliderA's first: colliderA gets (colliderA, colliderB, side of the
\* MTV, -MTV), colliderB gets (colliderB, colliderA, opposite side, MTV),
\* whatever the collision types of the bodies.
C5_PreSolveEvents ==
  [][RanPreSolve =>
       LET base == Len(events)
       IN  /\ Len(events') = base + 2 * Len(contacts)
           /\ SubSeq(events', 1, base) = events
           /\ \A i \in AllContacts :
                LET c == contacts[i]
                IN  /\ events'[base + 2 * i - 1] =
                         [name |-> "precollision", channel |-> c.colliderA,
                          target |-> c.colliderA, other |-> c.colliderB,
                          side |-> FromDirection(c.mtv),
                          intersection |-> Negate(c.mtv)]
                    /\ events'[base + 2 * i] =
                         [name |-> "precollision", channel |-> c.colliderB,
                          target |-> c.colliderB, other |-> c.colliderA,
                          side |-> GetOpposite(FromDirection(c.mtv)),
                          intersection |-> c.mtv]]_vars

\* preSolve has run over two contacts of a Fixed and a PreventCollision body
C5_Witness ==
  /\ pc = "solvePosition"
  /\ Len(contacts) = 2
  /\ Len(events) = 4
  /\ collisionType[0] = "Fixed"
  /\ collisionType[1] = "PreventCollision"
  /\ events[1].side = "Top"
  /\ events[4].side = "Right"

\* C6: no solver phase moves a body whose collision type is Fixed or Passive.
C6_FixedPassiveStay ==
  [][\A b \in BodyIds :
       collisionType[b] \in {"Fixed", "Passive"} => pos'[b] = pos[b]]_vars

RECURSIVE CorrectionSum(_, _)
\* the sum, over the contacts of cs whose colliderA belongs to body b, of the
\* MTV (halved when both bodies of the contact are Active)
CorrectionSum(b, cs) ==
  IF cs = <<>> THEN Zero
  ELSE LET c == Head(cs)
           d == IF Owner(c.colliderA) # b THEN Zero
                ELSE IF BothActive(c) THEN Half(c.mtv) ELSE c.mtv
       IN  VAdd(d, CorrectionSum(b, Tail(cs)))

\* C7: solvePosition adds, for each contact, the MTV (halved exactly when both
\* bodies are Active) to the position of colliderA's body; a body that owns
\* colliderA of no contact keeps its position, and no velocity changes.
C7_PositionFrame ==
  [][RanSolvePosition =>
       /\ \A b \in BodyIds :
            pos'[b] = VAdd(pos[b], CorrectionSum(b, contacts))
       /\ \A b \in BodyIds :
            (\A i \in AllContacts : Owner(contacts[i].colliderA) # b)
              => pos'[b] = pos[b]
       /\ vel' = vel]_vars

\* solvePosition has moved colliderA's body by two unhalved MTVs and by a
\* halved one in another run, and has left the other body where it was
C7_Witness ==
  /\ pc = "solveVelocity"
  /\ pass = 0
  /\ Len(contacts) = 2
  /\ collisionType[0] = "Active"
  /\ collisionType[1] = "Fixed"
  /\ pos[0] = VAdd(StartPos[0], <<10, 10>>)
  /\ pos[1] = StartPos[1]

\* the component of v across the axis-aligned unit vector n
Across(n, v) == Dot(<<-n[2], n[1]>>, v)

\* what one iteration of solveVelocity must achieve for one body against n
Cancelled(n, vIn, vOut) ==
  /\ Dot(n, vOut) >= 0
  /\ Across(n, vOut) = Across(n, vIn)
  /\ Dot(n, vIn) < 0 => Dot(n, vOut) = 0
  /\ Dot(n, vIn) >= 0 => vOut = vIn

\* the velocities after the first k contacts of the batch
VelAfter(k) == SolveVelocityAll(vel, SubSeq(contacts, 1, k))

\* C8: each iteration of solveVelocity leaves body A with a non-negative
\* velocity component along the normal and body B with a non-negative one
\* along the opposite: a negative component becomes 0, the component across
\* the normal is unchanged, a body that was not moving into the surface keeps
\* its velocity, as does every other body; no position changes.
C8_VelocityCancelled ==
  [][RanSolveVelocity =>
       /\ vel' = VelAfter(Len(contacts))
       /\ pos' = pos
       /\ \A i \in AllContacts :
            LET c    == contacts[i]
                a    == Owner(c.colliderA)
                b    == Owner(c.colliderB)
                vIn  == VelAfter(i - 1)
                vOut == VelAfter(i)
            IN  /\ Cancelled(c.normal, vIn[a], vOut[a])
                /\ Cancelled(Negate(c.normal), vIn[b], vOut[b])
                /\ \A o \in BodyIds \ {a, b} : vOut[o] = vIn[o]
                /\ Dot(c.normal, vel'[a]) >= 0
                /\ Dot(Negate(c.normal), vel'[b]) >= 0]_vars

\* solveVelocity has cancelled the normal component of both bodies of a
\* contact and kept their components across the normal
C8_Witness ==
  /\ pc = "postSolve"
  /\ pass = 0
  /\ Len(contacts) = 1
  /\ contacts[1].normal = <<1, 0>>
  /\ vel[Owner(contacts[1].colliderA)] = <<0, 2>>
  /\ vel[Owner(contacts[1].colliderB)] = <<0, -3>>

\* C9: preSolve and postSolve change no position, no velocity, no collider
\* list, no collider's owner and nothing of the contacts.
C9_Observational ==
  [][(RanPreSolve \/ RanPostSolve) =>
       UNCHANGED <<pos, vel, collisionType, colliders, owningId, body,
                   contacts, overlap>>]_vars

\* both phases have run over a non-empty batch
C9_Witness ==
  /\ pc = "passEnd"
  /\ Len(contacts) = 2
  /\ Len(events) = 8

-----------------------------------------------------------------------------
(* C10: addMtv and applyMtv *)

RECURSIVE VSum(_)
VSum(vs) == IF vs = <<>> THEN Zero ELSE VAdd(Head(vs), VSum(Tail(vs)))

\* C10: addMtv never changes a position; applyMtv moves the body by exactly
\* the sum of the vectors passed to addMtv since the previous applyMtv (or
\* since creation), moves no other body, and leaves the buffer at zero.
C10_MtvAccumulates ==
  [][\A b \in BodyIds :
       /\ (\E mtv \in MtvInputs : AddMtv(b, mtv)) => pos' = pos
       /\ ApplyMtv(b) =>
            /\ pos'[b] = VAdd(pos[b], VSum(mtvLog[b]))
            /\ \A o \in BodyIds \ {b} : pos'[o] = pos[o]
            /\ _totalMtv'[b] = Zero]_vars

\* applyMtv has carried body 0 by the sum of two added vectors while body 1
\* still waits with one vector in its buffer
C10_Witness ==
  /\ pos[0] = VAdd(StartPos[0], <<0, 1>>)
  /\ _totalMtv[0] = Zero
  /\ mtvLog[0] = <<>>
  /\ pos[1] = StartPos[1]
  /\ _totalMtv[1] = <<-1, 1>>

-----------------------------------------------------------------------------
(* C11: applyMtv twice *)

\* C11: an applyMtv with no addMtv since the previous applyMtv (or since
\* creation) changes neither any position nor any buffer.
C11_ApplyTwiceNoOp ==
  [][\A b \in BodyIds :
       (ApplyMtv(b) /\ mtvLog[b] = <<>>) =>
         /\ pos' = pos
         /\ _totalMtv' = _totalMtv]_vars

\* applyMtv has moved body 0 and emptied its buffer: a second applyMtv finds
\* nothing added
C11_Witness ==
  /\ pos[0] = VAdd(StartPos[0], <<1, 0>>)
  /\ mtvLog[0] = <<>>
  /\ _totalMtv[0] = Zero
  /\ mtvLog[1] # <<>>

-----------------------------------------------------------------------------
(* C12, C13: the transform snapshot *)

\* C12: right after captureOldTransform() hasChanged() is false, and a
\* change of the position of a body for which hasChanged() is false makes
\* it true.
C12_RoundTrip ==
  [][\A b \in BodyIds :
       /\ CaptureOldTransform(b) => ~HasChanged(b)'
       /\ \A p \in PosSet :
            (SetPos(b, p) /\ p # pos[b] /\ ~HasChanged(b)) =>
              HasChanged(b)']_vars

\* position, rotation or scale differs in value from the snapshot
ValuesDiffer(b) ==
  \/ pos[b] # oldPos[b]
  \/ rotation[b] # oldRotation[b]
  \/ scale[b].v # oldScale[b].v

\* C13: once captureOldTransform() has run, hasChanged() is true exactly
\* when position, rotation or scale differs in value from the snapshot.
C13_ChangedIffValuesDiffer ==
  \A b \in BodyIds : captured[b] => (HasChanged(b) <=> ValuesDiffer(b))

-----------------------------------------------------------------------------
(* C14: the use*Collider helpers *)

\* the collider a use*Collider call on body b returns, and what the claim
\* says of it
OnlyNewCollider(b) ==
  /\ colliders'[b] = <<FreshCollider>>
  /\ owningId'[FreshCollider] = b
  /\ body'[FreshCollider] = b

\* C14: after useBoxCollider, useCircleCollider, usePolygonCollider or
\* useEdgeCollider on a body, whatever it owned before, its collider list
\* holds exactly the new collider, which is owned by the body.
C14_UseColliderReplaces ==
  [][\A b \in BodyIds :
       (\/ UseBoxCollider(b)
        \/ UseCircleCollider(b)
        \/ UsePolygonCollider(b)
        \/ UseEdgeCollider(b)) => OnlyNewCollider(b)]_vars

\* body 1 listed two colliders and then called a use*Collider: it lists
\* the third collider only, and the two it had are in no list
C14_Witness ==
  /\ colliders[1] = <<3>>
  /\ owningId[3] = 1
  /\ owningId[1] = 1
  /\ owningId[2] = 1
  /\ shape[3] = "Circle"
  /\ colliders[0] = <<>>

-----------------------------------------------------------------------------
(* C19, C20: construction with options *)

\* C19: a body constructed with the colliders option lists the given
\* colliders in the given order, each with body and owningId set to the new
\* body.
C19_GivenCollidersOwned ==
  [][\A given \in Givens :
       NewBodyColliders(given) =>
         /\ colliders'[_ID] = given
         /\ \A i \in 1 .. Len(given) :
              /\ owningId'[given[i]] = _ID
              /\ body'[given[i]] = _ID]_vars

\* C20: a body constructed with the box option lists exactly one collider,
\* the new box collider, whatever the body's id.
C20_BoxListedOnce ==
  [][NewBodyBox =>
       /\ colliders'[_ID] = <<FreshCollider>>
       /\ shape'[FreshCollider] = "Box"
       /\ owningId'[FreshCollider] = _ID]_vars

-----------------------------------------------------------------------------
(* C15: BodyComponent.collide *)

\* the k-th pair of the row-major enumeration of as x bs
PairAt(as, bs, k) ==
  <<as[((k - 1) \div Len(bs)) + 1], bs[((k - 1) % Len(bs)) + 1]>>

\* every pair once, self's colliders outermost, and of those the contacts of
\* the overlapping ones
ExpectedContacts(self, other) ==
  LET as   == colliders[self]
      bs   == colliders[other]
      all  == [k \in 1 .. (Len(as) * Len(bs)) |-> PairAt(as, bs, k)]
      hits == SelectSeq(all, LAMBDA p : Mtv(p[1], p[2]) # Zero)
  IN  [i \in 1 .. Len(hits) |->
         [colliderA |-> hits[i][1], colliderB |-> hits[i][2],
          mtv |-> Mtv(hits[i][1], hits[i][2]),
          normal |-> Normalize(Mtv(hits[i][1], hits[i][2]))]]

\* C15: self.collide(other) returns the contacts of the overlapping pairs
\* (colliderA of self, colliderB of other), one per pair, ordered by self's
\* collider first and other's collider second; it returns no contact when
\* either list is empty, and it changes neither body nor the geometry (so a
\* repeated call returns the same sequence).
C15_CollideRowMajor ==
  [][\A self \in BodyIds, other \in BodyIds :
       Collide(self, other) =>
         /\ contacts' = ExpectedContacts(self, other)
         /\ (colliders[self] = <<>> \/ colliders[other] = <<>>) =>
              contacts' = <<>>
         /\ UNCHANGED <<colliders, owningId, body, pos, vel, overlap>>]_vars

\* body 1 (colliders 2 and 3) collided with body 0 (collider 1): both pairs
\* overlap and the contact of collider 2 comes first
C15_Witness ==
  /\ colliders[1] = <<2, 3>>
  /\ colliders[0] = <<1>>
  /\ Len(contacts) = 2
  /\ contacts[1].colliderA = 2
  /\ contacts[1].colliderB = 1
  /\ contacts[2].colliderA = 3
  /\ contacts[2].colliderB = 1

-----------------------------------------------------------------------------
(* C16, C18: empty batches and repeated passes *)

\* C16: with no contact in the batch, none of preSolve, solvePosition,
\* solveVelocity and postSolve emits an event or changes a position or a
\* velocity.
C16_EmptyBatchNoOp ==
  [][(/\ contacts = <<>>
      /\ \/ RanPreSolve
         \/ RanSolvePosition
         \/ RanSolveVelocity
         \/ RanPostSolve) =>
       /\ events' = events
       /\ pos' = pos
       /\ vel' = vel]_vars

\* a whole pass has run over an empty batch with both bodies moving
C16_Witness ==
  /\ pc = "passEnd"
  /\ pass = 1
  /\ contacts = <<>>
  /\ events = <<>>
  /\ vel[0] = <<-3, 2>>
  /\ vel[1] = <<2, -3>>
  /\ pos = StartPos

\* C18: at the end of N passes over one batch every body stands N times its
\* per-pass correction away from where it started; with one contact in the
\* batch that is N times the MTV (N times half of it when both bodies are
\* Active) for colliderA's body and nothing for colliderB's body.
C18_PassesRepeat ==
  pc = "passEnd" =>
    /\ \A b \in BodyIds :
         pos[b] = VAdd(StartPos[b], Scale(CorrectionSum(b, contacts), pass))
    /\ Len(contacts) = 1 =>
         LET c == contacts[1]
             a == Owner(c.colliderA)
             o == Owner(c.colliderB)
             m == IF BothActive(c) THEN Half(c.mtv) ELSE c.mtv
         IN  /\ pos[a] = VAdd(StartPos[a], Scale(m, pass))
             /\ pos[o] = StartPos[o]

\* two passes over one contact between two Active bodies: colliderA's body
\* has moved by twice half the MTV, the other body not at all
C18_Witness ==
  /\ pc = "passEnd"
  /\ pass = 2
  /\ Len(contacts) = 1
  /\ contacts[1].mtv = <<10, 0>>
  /\ Owner(contacts[1].colliderA) = 0
  /\ collisionType[0] = "Active"
  /\ collisionType[1] = "Active"
  /\ pos[0] = VAdd(StartPos[0], <<10, 0>>)
  /\ pos[1] = StartPos[1]

-----------------------------------------------------------------------------
(* C17: re-publication on the entity *)

Listed(b, c) == \E i \in 1 .. Len(colliders[b]) : colliders[b][i] = c

\* C17: an event emitted on a collider is published exactly once, with the
\* same side and intersection, on the entity of every body that has had
\* onAdd and lists the collider, and not at all on the entity of a body that
\* has not had onAdd or has had onRemove since.
C17_RepublishedOnce ==
  [][\A c \in ColliderIds, o \in ColliderIds, name \in EventNames :
       Emit(c, o, name, Left, <<10, 0>>) =>
         \A b \in BodyIds :
           /\ (handlers[b] > 0 /\ Listed(b, c)) =>
                /\ Len(entityEvents'[b]) = 1
                /\ entityEvents'[b][1].name = name
                /\ entityEvents'[b][1].side = Left
                /\ entityEvents'[b][1].intersection = <<10, 0>>
           /\ handlers[b] = 0 => entityEvents'[b] = <<>>]_vars

-----------------------------------------------------------------------------
(* C21: ownership in both directions *)

\* C21: a collider is in a body's collider list exactly when its body and
\* its owningId are that body.
C21_OwnershipBothWays ==
  \A b \in BodyIds, c \in ColliderIds :
    Listed(b, c) <=> (body[c] = b /\ owningId[c] = b)

-----------------------------------------------------------------------------
(* C28: the tile map constructor *)

PositiveSafeInteger(v) == v.k = "int" /\ v.n > 0

\* what the claim calls a bad configuration
BadConfig(config) ==
  \/ ~PositiveSafeInteger(config.chunkSize)
  \/ ~PositiveSafeInteger(config.rows)
  \/ ~PositiveSafeInteger(config.cols)
  \/ config.cols.n % config.chunkSize.n # 0
  \/ config.rows.n % config.chunkSize.n # 0

\* C28: the constructor throws exactly for a chunkSize, rows or cols that is
\* not a positive safe integer and for cols or rows that is no multiple of
\* chunkSize; otherwise the map has chunkCols = cols / chunkSize, chunkRows =
\* rows / chunkSize, no chunk and an empty render list.
C28_ConstructorChecks ==
  tmStatus # "none" =>
    /\ tmStatus \in {"TypeError", "Error"} <=> BadConfig(tmArgs)
    /\ tmStatus = "ok" =>
         /\ chunkCols * tmArgs.chunkSize.n = tmArgs.cols.n
         /\ chunkRows * tmArgs.chunkSize.n = tmArgs.rows.n
         /\ _chunks = <<>>
         /\ _chunksToRender = <<>>

\* the constructor threw for rows = 3 with chunkSize = 2 and cols = 4
C28_Witness ==
  /\ tmStatus = "Error"
  /\ tmArgs.chunkSize = Whole(2)
  /\ tmArgs.cols = Whole(4)
  /\ tmArgs.rows = Whole(3)

-----------------------------------------------------------------------------
(* C22: the chunk matrix stays rectangular and aligned with its offsets *)

\* cells inside and around the map
ProbeCellsX == -9 .. 32
ProbeCellsY == -9 .. 24

\* C22: all rows of the chunk matrix have one length, the chunk stored at
\* [r][c] is the one generated for (c + xOffset, r + yOffset), and getChunk
\* returns null or the chunk generated for the cell's chunk coordinates.
C22_MatrixAligned ==
  tmStatus = "ok" =>
    /\ \A r \in DOMAIN _chunks : Len(_chunks[r]) = Len(_chunks[1])
    /\ \A r \in DOMAIN _chunks : \A c \in DOMAIN _chunks[r] :
         _chunks[r][c].loaded =>
           /\ _chunks[r][c].x = (c - 1) + _chunksXOffset
           /\ _chunks[r][c].y = (r - 1) + _chunksYOffset
    /\ \A cellX \in ProbeCellsX, cellY \in ProbeCellsY :
         GetChunk(cellX, cellY).loaded =>
           /\ GetChunk(cellX, cellY).x * chunkSize <= cellX
           /\ cellX < (GetChunk(cellX, cellY).x + 1) * chunkSize
           /\ GetChunk(cellX, cellY).y * chunkSize <= cellY
           /\ cellY < (GetChunk(cellX, cellY).y + 1) * chunkSize

\* garbage collection has trimmed the left column away and unloaded a chunk,
\* and getChunk still finds the chunk of cell (8, 8)
C22_Witness ==
  /\ unloaded # {}
  /\ _chunksXOffset = 1
  /\ _chunksYOffset = 1
  /\ GetChunk(8, 8).loaded

-----------------------------------------------------------------------------
(* C23: what garbage collection may unload *)

\* chunk is inside the on-screen chunk range of update u
OnScreen(chunk, u) ==
  /\ u.xStart <= chunk.x  /\ chunk.x <= u.xEnd
  /\ u.yStart <= chunk.y  /\ chunk.y <= u.yEnd

\* a chunk of matrix m is loaded for the coordinates of chunk
StillLoaded(chunk, m) ==
  \E other \in LoadedIn(m) : other.x = chunk.x /\ other.y = chunk.y

\* C23: a chunk is unloaded only by an update with a garbage-collector
\* predicate, only outside that update's on-screen chunk range, and only if
\* the predicate returned true for it in that update.
C23_UnloadsOnlyOffScreen ==
  [][\A chunk \in LoadedIn(_chunks) \cup unloaded' :
       (chunk \in unloaded' \/ ~StillLoaded(chunk, _chunks')) =>
         /\ gcPredicate
         /\ lastUpdate'.fresh
         /\ ~OnScreen(chunk, lastUpdate')
         /\ <<chunk.x, chunk.y>> \in lastUpdate'.gcTrue]_vars

\* an update has unloaded a chunk and lists others, one of them a chunk the
\* predicate would have swept
C23_Witness ==
  /\ unloaded # {}
  /\ Len(_chunksToRender) > 1
  /\ \E i \in DOMAIN _chunksToRender :
       _chunksToRender[i].x = 2 /\ _chunksToRender[i].y = 1

-----------------------------------------------------------------------------
(* C24: when the chunk generator is called *)

\* C24: the generator is called only for coordinates of the map's chunk
\* grid, never for a coordinate that has a loaded chunk, and so never again
\* for a chunk loaded before the update unless that update unloaded it.
C24_GeneratesOnlyAbsent ==
  [][\A i \in DOMAIN generated' :
       /\ generated'[i].x \in 0 .. chunkCols - 1
       /\ generated'[i].y \in 0 .. chunkRows - 1
       /\ ~generated'[i].wasLoaded
       /\ \A j \in DOMAIN generated' :
            (generated'[j].x = generated'[i].x /\
             generated'[j].y = generated'[i].y) => j = i
       /\ \A chunk \in LoadedIn(_chunks) :
            (chunk.x = generated'[i].x /\ chunk.y = generated'[i].y) =>
              chunk \in unloaded']_vars

\* the screen reaches over the left and the top edge of the map, and the
\* update generated the one chunk of the map it shows next to a loaded one
C24_Witness ==
  /\ lastUpdate.fresh
  /\ lastUpdate.xStart < 0
  /\ Len(_chunksToRender) = 1
  /\ Len(generated) = 1
  /\ Cardinality(LoadedIn(_chunks)) > 1

-----------------------------------------------------------------------------
(* C25: the render list after an update *)

Clamp(n, low, high) == IF n < low THEN low ELSE IF n > high THEN high ELSE n

\* the on-screen chunk range of update u clamped to the map's chunk grid
Clamped(u) ==
  [left   |-> Clamp(u.xStart, 0, chunkCols - 1),
   right  |-> Clamp(u.xEnd, 0, chunkCols - 1),
   top    |-> Clamp(u.yStart, 0, chunkRows - 1),
   bottom |-> Clamp(u.yEnd, 0, chunkRows - 1)]

\* C25: after an update the render list is empty or holds exactly the chunks
\* of the clamped on-screen range, rows outer and columns inner, each of
\* them the loaded chunk of the matrix and none twice.
C25_RenderListIsRange ==
  lastUpdate.ran =>
    \/ _chunksToRender = <<>>
    \/ LET range == Clamped(lastUpdate)
           width == range.right - range.left + 1
           height == range.bottom - range.top + 1
       IN  /\ Len(_chunksToRender) = width * height
           /\ \A i \in DOMAIN _chunksToRender :
                /\ _chunksToRender[i].loaded
                /\ _chunksToRender[i].x = range.left + ((i - 1) % width)
                /\ _chunksToRender[i].y = range.top + ((i - 1) \div width)
                /\ _chunksToRender[i] \in LoadedIn(_chunks)
                /\ GetChunk(_chunksToRender[i].x * chunkSize,
                            _chunksToRender[i].y * chunkSize)
                     = _chunksToRender[i]

\* an update lists the four chunks of a two by two range, two of them just
\* generated, after an earlier update had listed other chunks
C25_Witness ==
  /\ lastUpdate.fresh
  /\ Len(_chunksToRender) = 4
  /\ Len(generated) = 2
  /\ Cardinality(LoadedIn(_chunks)) > 4

-----------------------------------------------------------------------------
(* C26: sprite sheets of loaded chunks *)

\* C26: every loaded chunk has every sprite sheet of the map registered on
\* it, under the map's key.
C26_SheetsOnEveryChunk ==
  \A chunk \in LoadedIn(_chunks) :
    \A key \in SheetKeys :
      _spriteSheets[key] # NoSheet => chunk.sheets[key] = _spriteSheets[key]

\* one chunk was generated after both sheets were registered, another was
\* loaded already when the second sheet was registered
C26_Witness ==
  /\ lastUpdate.fresh
  /\ Len(generated) > 0
  /\ Cardinality(LoadedIn(_chunks)) > Len(generated)
  /\ \A key \in SheetKeys : _spriteSheets[key] # NoSheet

-----------------------------------------------------------------------------
(* C27: the rendering cache *)

\* the chunk loaded in matrix m for the coordinates (x, y) has a cache
CachedIn(m, x, y) ==
  \E chunk \in LoadedIn(m) :
    chunk.x = x /\ chunk.y = y /\ chunk.renderingCache

\* C27: a chunk that has a rendering cache keeps it while it stays loaded,
\* and an update that lists it neither updates it nor asks the predicate
\* about it; a listed chunk without a cache is updated, and gets a cache
\* only if the predicate returned true for it in that update; draw paints
\* the cached image of a chunk that has one and calls draw on the others.
C27_CacheKept ==
  [][/\ \A chunk \in LoadedIn(_chunks) :
          (chunk.renderingCache /\ StillLoaded(chunk, _chunks')) =>
            CachedIn(_chunks', chunk.x, chunk.y)
     /\ lastUpdate'.fresh =>
          \A i \in DOMAIN _chunksToRender' :
            LET chunk == _chunksToRender'[i]
                called == \E k \in DOMAIN updated' :
                            updated'[k] = <<chunk.x, chunk.y>>
                asked == {k \in DOMAIN cacheAsked' :
                            cacheAsked'[k].x = chunk.x /\
                            cacheAsked'[k].y = chunk.y}
            IN  IF CachedIn(_chunks, chunk.x, chunk.y)
                  THEN ~called /\ asked = {}
                  ELSE /\ called
                       /\ chunk.renderingCache =>
                            \E k \in asked : cacheAsked'[k].answer
     /\ \A i \in DOMAIN drawn' :
          /\ drawn'[i].x = _chunksToRender[i].x
          /\ drawn'[i].y = _chunksToRender[i].y
          /\ drawn'[i].how = "drawImage" <=> _chunksToRender[i].renderingCache
     ]_vars

\* an update lists a chunk that had its cache before, one that gets its
\* cache now and one that is only updated
C27_Witness ==
  /\ lastUpdate.fresh
  /\ generated = <<>>
  /\ Len(updated) = 3
  /\ Len(_chunksToRender) = 4
  /\ \E i \in DOMAIN cacheAsked : cacheAsked[i].answer
  /\ \E i \in DOMAIN cacheAsked : ~cacheAsked[i].answer

=============================================================================
